---- MODULE Spec2Model ----
(***************************************************************************)
(* A model of the tool-execution hub (src/hub.py), the agent loop          *)
(* (src/conversation.py, src/server.py) and the session store              *)
(* (src/sessions.py).                                                      *)
(*                                                                         *)
(* Python dicts are functions whose DOMAIN is the set of keys; Python      *)
(* lists are sequences; Python sets are sets.  Every action is one         *)
(* stretch of code that runs between two suspension points of the          *)
(* single-threaded event loop.                                             *)
(***************************************************************************)
EXTENDS Integers, Sequences, FiniteSets, TLC

(***************************************************************************)
(* Bounds of the model.                                                    *)
(***************************************************************************)
NumConns == 2
MaxCalls == 2
MaxDrift == 1
RegCalls == 1
RouteCalls == 3
MaxMsgs == 5
MaxTranscript == 2
CorrCalls == 3
AgentConns == 1
AgentCalls == 2
NumTurns == 2
MaxTurnMsgs == 3
MaxSpawn == 4
MaxTarget == 3
AffCalls == 3

Workers == {"w1", "w2"}
Tools == {"t1", "t2"}
Sessions == {"s1"}
NoWorker == "none"
NoSession == "none"
ToolLists == {<<>>, <<"t1">>, <<"t2">>, <<"t1", "t2">>}

\* The strings _dispatch returns (hub.py:210, 236) and the outcome of a
\* dispatch whose send raised (hub.py:222).
ErrNoWorker == "Error: no worker registered for tool"
ErrTimeout == "Error: tool timed out after 120s"
SendRaised == "send raised"
NoResult == "no result"

VARIABLES
    connSt,            \* connection slot -> "free" | "open" | "closed"
    connWid,           \* connection slot -> worker_id of its handler
    worker_senders,    \* Hub._worker_senders: worker_id -> connection
    tool_to_workers,   \* Hub._tool_to_workers: tool name -> list of worker ids
    tool_rr_index,     \* Hub._tool_rr_index: tool name -> counter
    session_affinity,  \* Hub._session_affinity: session id -> worker id
    pending,           \* keys of Hub._pending (the future is calls[cid])
    busy_workers,      \* Hub._busy_workers
    call_to_worker,    \* Hub._call_to_worker: call id -> worker id
    worker_count,      \* Hub._worker_count
    tool_schemas,      \* Hub._tool_schemas, each schema reduced to its name
    calls,             \* log of the _dispatch invocations, in order
    epoch,             \* tool -> length of calls when its alive list last changed
    watch,             \* the tools whose round-robin periods epoch follows
    registered,        \* history: the connections that sent a register frame
    messages,          \* Conversation.messages
    pc,                \* where the agent task of the client socket is suspended
    response,          \* run_agent_loop's local: the latest provider response
    tool_results,      \* _handle_tool_use's local list
    blockAt,           \* position in response.content of the block being handled
    file,              \* the session's JSON file in the store
    preSave,           \* conv.messages as they were at the latest save
    beforeSave,        \* the file as it was before the latest save
    lastOp,            \* the latest store operations
    grown,             \* how many messages the conversation was given
    hpc,               \* where the chat handler of the client socket is
    cancelling,        \* cancel() was called on the task, which has not run since
    running,           \* how many tasks of the socket were created and are not done
    events,            \* the events the current task sent to the client
    http,              \* the HTTP request that was answered last, or is running
    disk,              \* the text the session's file holds on disk
    wr,                \* the write of the session's file that is under way
    other,             \* the JSON file of a second session
    turns,             \* the POST /sessions/{id}/prompt requests under way
    pool,              \* PoolManager._config["workers"], as saved
    procs,             \* the pids of the worker processes that are alive
    mgr,               \* the pool manager: down or up, pids given, last operation
    conversation_tools,\* Hub.conversation.tools / tool_handlers (names)
    bound_tools,       \* the tools of the conversation of the chat socket
    rr_count           \* per tool, the round-robin picks since its name was added

hubVars == <<connSt, connWid, worker_senders, tool_to_workers, tool_rr_index,
             session_affinity, pending, busy_workers, call_to_worker,
             worker_count, tool_schemas, calls, epoch, watch, registered>>

convVars == <<messages, pc, response, tool_results, blockAt>>

storeVars == <<file, preSave, beforeSave, lastOp, grown>>

srvVars == <<hpc, cancelling, running, events, http>>

diskVars == <<disk, wr>>

poolVars == <<pool, procs, mgr>>

toolVars == <<conversation_tools, bound_tools>>

extVars == <<diskVars, other, turns, poolVars, toolVars, rr_count>>

vars == <<hubVars, convVars, storeVars, srvVars, extVars>>

(***************************************************************************)
(* Python dict and list helpers.                                           *)
(***************************************************************************)
Put(f, k, v) == [x \in DOMAIN f \cup {k} |-> IF x = k THEN v ELSE f[x]]
Del(f, k) == [x \in DOMAIN f \ {k} |-> f[x]]
Values(f) == {f[x] : x \in DOMAIN f}
EmptyDict == [x \in {} |-> 0]
InList(x, s) == \E i \in 1..Len(s) : s[i] = x
\* list.remove(x): drops the first occurrence of x (x is in s).
ListRemove(s, x) ==
    LET i == CHOOSE k \in 1..Len(s) : s[k] = x /\ \A j \in 1..(k - 1) : s[j] # x
    IN  SubSeq(s, 1, i - 1) \o SubSeq(s, i + 1, Len(s))
Restrict(f, S) == [x \in DOMAIN f \cap S |-> f[x]]

(***************************************************************************)
(* Hub._register_tools (hub.py:168-182).  The loop over the schemas of one *)
(* register frame; h carries the three structures the loop changes.        *)
(***************************************************************************)
RegisterSchema(h, worker_id, name) ==
    LET workers == IF name \in DOMAIN h.t2w THEN h.t2w[name] ELSE <<>>
        workers2 == IF InList(worker_id, workers) THEN workers
                    ELSE Append(workers, worker_id)
        isNew == ~InList(name, h.schemas)
    IN  [t2w |-> Put(h.t2w, name, workers2),
         schemas |-> IF isNew THEN Append(h.schemas, name) ELSE h.schemas,
         rr |-> IF isNew THEN Put(h.rr, name, 0) ELSE h.rr]

RECURSIVE RegisterLoop(_, _, _)
RegisterLoop(h, worker_id, schemas) ==
    IF schemas = <<>> THEN h
    ELSE RegisterLoop(RegisterSchema(h, worker_id, Head(schemas)),
                      worker_id, Tail(schemas))

RegisterTools(worker_id, schemas) ==
    RegisterLoop([t2w |-> tool_to_workers, schemas |-> tool_schemas,
                  rr |-> tool_rr_index], worker_id, schemas)

(***************************************************************************)
(* Hub._pick_worker (hub.py:184-205).                                      *)
(***************************************************************************)
AliveOf(t2w, senders, tool_name) ==
    IF tool_name \in DOMAIN t2w
    THEN SelectSeq(t2w[tool_name], LAMBDA w : w \in DOMAIN senders)
    ELSE <<>>

Alive(tool_name) == AliveOf(tool_to_workers, worker_senders, tool_name)

UsesAffinityNever(tool_name, session_id) == FALSE

\* hub.py:189-192: the session is bound to a live provider of the tool.
UsesAffinity(tool_name, session_id) ==
    /\ tool_name \in DOMAIN tool_to_workers
    /\ tool_to_workers[tool_name] # <<>>
    /\ session_id # NoSession
    /\ session_id \in DOMAIN session_affinity
    /\ InList(session_affinity[session_id], tool_to_workers[tool_name])
    /\ session_affinity[session_id] \in DOMAIN worker_senders

\* hub.py:198: idx = rr_index.get(tool, 0) % len(alive); lists are 0-based.
RRIdx(tool_name) ==
    (IF tool_name \in DOMAIN tool_rr_index THEN tool_rr_index[tool_name] ELSE 0)
        % Len(Alive(tool_name))

RRAdvanceStuck(idx) == idx

\* hub.py:199: self._tool_rr_index[tool_name] = idx + 1
RRAdvance(idx) == idx + 1

\* The same without the test of hub.py:202: the binding is written for a
\* caller without a session too.
PickWorkerBindsAlways(tool_name, session_id) ==
    IF tool_name \notin DOMAIN tool_to_workers \/ tool_to_workers[tool_name] = <<>>
    THEN [chosen |-> NoWorker, via |-> "none",
          rr |-> tool_rr_index, aff |-> session_affinity]
    ELSE IF UsesAffinity(tool_name, session_id)
    THEN [chosen |-> session_affinity[session_id], via |-> "affinity",
          rr |-> tool_rr_index, aff |-> session_affinity]
    ELSE IF Alive(tool_name) = <<>>
    THEN [chosen |-> NoWorker, via |-> "none",
          rr |-> tool_rr_index, aff |-> session_affinity]
    ELSE LET idx == RRIdx(tool_name)
             chosen == Alive(tool_name)[idx + 1]
         IN  [chosen |-> chosen, via |-> "rr",
              rr |-> Put(tool_rr_index, tool_name, RRAdvance(idx)),
              aff |-> Put(session_affinity, session_id, chosen)]

PickWorker(tool_name, session_id) ==
    IF tool_name \notin DOMAIN tool_to_workers \/ tool_to_workers[tool_name] = <<>>
    THEN [chosen |-> NoWorker, via |-> "none",
          rr |-> tool_rr_index, aff |-> session_affinity]
    ELSE IF UsesAffinity(tool_name, session_id)
    THEN [chosen |-> session_affinity[session_id], via |-> "affinity",
          rr |-> tool_rr_index, aff |-> session_affinity]
    ELSE IF Alive(tool_name) = <<>>
    THEN [chosen |-> NoWorker, via |-> "none",
          rr |-> tool_rr_index, aff |-> session_affinity]
    ELSE LET idx == RRIdx(tool_name)
             chosen == Alive(tool_name)[idx + 1]
         IN  [chosen |-> chosen, via |-> "rr",
              rr |-> Put(tool_rr_index, tool_name, RRAdvance(idx)),
              aff |-> IF session_id # NoSession
                      THEN Put(session_affinity, session_id, chosen)
                      ELSE session_affinity]

BusyAfterAnyCall(c2w, wid) == busy_workers \ {wid}

\* hub.py:133-134, 234-235: the worker leaves busy_workers when no call is left.
BusyAfter(c2w, wid) ==
    IF wid \in Values(c2w) THEN busy_workers ELSE busy_workers \ {wid}

\* The tool's alive list changed: a new round-robin period starts.
EpochAfter(t2w, senders) ==
    [t \in Tools |-> IF t \in watch /\ AliveOf(t2w, senders, t) # Alive(t)
                     THEN Len(calls) ELSE epoch[t]]

(***************************************************************************)
(* The hub after Hub.__init__ (hub.py:15-29); no connection is open.       *)
(***************************************************************************)
HubInit ==
    /\ connSt = [c \in 1..NumConns |-> "free"]
    /\ connWid = [c \in 1..NumConns |-> NoWorker]
    /\ worker_senders = EmptyDict
    /\ tool_to_workers = EmptyDict
    /\ tool_rr_index = EmptyDict
    /\ session_affinity = EmptyDict
    /\ pending = {}
    /\ busy_workers = {}
    /\ call_to_worker = EmptyDict
    /\ worker_count = 0
    /\ tool_schemas = <<>>
    /\ calls = <<>>
    /\ epoch = [t \in Tools |-> 0]
    /\ registered = {}

(***************************************************************************)
(* _process_message, type "register" (hub.py:124-128).                     *)
(***************************************************************************)
ProcessRegister(worker_id, senders, schemas) ==
    LET h == RegisterTools(worker_id, schemas)
    IN  /\ tool_to_workers' = h.t2w
        /\ tool_schemas' = h.schemas
        /\ tool_rr_index' = h.rr
        /\ worker_count' = worker_count + 1
        /\ epoch' = EpochAfter(h.t2w, senders)

(***************************************************************************)
(* Hub._handle_worker / aiohttp_worker_handler up to the receive loop      *)
(* (hub.py:77-83, 93-107): a new connection, its first frame a register.   *)
(***************************************************************************)
ConnectRegister(c, worker_id, schemas) ==
    /\ connSt[c] = "free"
    /\ connSt' = [connSt EXCEPT ![c] = "open"]
    /\ connWid' = [connWid EXCEPT ![c] = worker_id]
    /\ worker_senders' = Put(worker_senders, worker_id, c)
    /\ ProcessRegister(worker_id, worker_senders', schemas)
    /\ registered' = registered \cup {c}
    /\ UNCHANGED <<session_affinity, pending, busy_workers, call_to_worker, calls,
                   watch>>

\* The same, the first frame being of a type _process_message ignores.
ConnectOther(c, worker_id) ==
    /\ connSt[c] = "free"
    /\ connSt' = [connSt EXCEPT ![c] = "open"]
    /\ connWid' = [connWid EXCEPT ![c] = worker_id]
    /\ worker_senders' = Put(worker_senders, worker_id, c)
    /\ epoch' = EpochAfter(tool_to_workers, worker_senders')
    /\ UNCHANGED <<tool_to_workers, tool_rr_index, session_affinity, pending,
                   busy_workers, call_to_worker, worker_count, tool_schemas, calls,
                   watch, registered>>

\* A register frame inside the receive loop (hub.py:86-87, 110-112).
FrameRegister(c, schemas) ==
    /\ connSt[c] = "open"
    /\ ProcessRegister(connWid[c], worker_senders, schemas)
    /\ registered' = registered \cup {c}
    /\ UNCHANGED <<connSt, connWid, worker_senders, session_affinity, pending,
                   busy_workers, call_to_worker, calls, watch>>

(***************************************************************************)
(* _process_message, type "tool_result" (hub.py:130-137).  A worker        *)
(* answers calls that were sent to it, on whichever connection it has now, *)
(* any number of times; call id 0 is an id the hub never issued.           *)
(***************************************************************************)
Issued(call_id) ==
    /\ call_id \in 1..Len(calls)
    /\ calls[call_id].wid # NoWorker
    /\ calls[call_id].st # "raised"

PoppedFutureOldest(call_id) ==
    IF pending = {} THEN call_id ELSE CHOOSE i \in pending : \A j \in pending : i <= j

\* The future that was stored last is taken instead.
PoppedFutureLatest(call_id) ==
    IF pending = {} THEN call_id ELSE CHOOSE i \in pending : \A j \in pending : j <= i

\* hub.py:135: fut = self._pending.pop(call_id, None), the future kept
\* under the call id of the frame.
PoppedFuture(call_id) == call_id

CompletesAlways(fut) == fut \in 1..Len(calls)

\* hub.py:136: if fut and not fut.done()
Completes(fut) == fut \in pending /\ calls[fut].st = "waiting"

FrameToolResult(c, call_id, content) ==
    /\ connSt[c] = "open"
    /\ call_id = 0 \/ (Issued(call_id) /\ calls[call_id].wid = connWid[c])
    /\ LET c2w == Del(call_to_worker, call_id)
       IN  /\ call_to_worker' = c2w
           /\ busy_workers' = IF call_id \in DOMAIN call_to_worker
                               THEN BusyAfter(c2w, call_to_worker[call_id])
                               ELSE busy_workers
    /\ LET fut == PoppedFuture(call_id)
       IN  /\ pending' = pending \ {fut}
           /\ calls' = IF Completes(fut)
                       THEN [calls EXCEPT ![fut].st = "done", ![fut].res = content]
                       ELSE calls
    /\ UNCHANGED <<connSt, connWid, worker_senders, tool_to_workers, tool_rr_index,
                   session_affinity, worker_count, tool_schemas, epoch, watch,
                   registered>>

\* The socket of a connection closes; its handler has not run yet.
Close(c) ==
    /\ connSt[c] = "open"
    /\ connSt' = [connSt EXCEPT ![c] = "closed"]
    /\ UNCHANGED <<connWid, worker_senders, tool_to_workers, tool_rr_index,
                   session_affinity, pending, busy_workers, call_to_worker,
                   worker_count, tool_schemas, calls, epoch, watch, registered>>

(***************************************************************************)
(* Hub._cleanup_worker (hub.py:139-166), run by the handler's finally.     *)
(* A waiting dispatch whose call is dropped here is marked orphan.         *)
(***************************************************************************)
CleanupT2w(worker_id) ==
    LET removed == [t \in DOMAIN tool_to_workers |->
                       IF InList(worker_id, tool_to_workers[t])
                       THEN ListRemove(tool_to_workers[t], worker_id)
                       ELSE tool_to_workers[t]]
        empty_tools == {t \in DOMAIN tool_to_workers :
                          InList(worker_id, tool_to_workers[t]) /\ removed[t] = <<>>}
    IN  [t2w |-> Restrict(removed, DOMAIN removed \ empty_tools),
         empty |-> empty_tools]

CleanupSchemasKept(empty_tools) == tool_schemas

\* hub.py:154: the schemas of the emptied tools are filtered out.
CleanupSchemas(empty_tools) ==
    SelectSeq(tool_schemas, LAMBDA n : n \notin empty_tools)

CleanupAffinityKept(worker_id) == session_affinity

\* hub.py:156-158: the bindings to the worker are deleted.
CleanupAffinity(worker_id) ==
    Restrict(session_affinity,
             {sid \in DOMAIN session_affinity : session_affinity[sid] # worker_id})

CleanupWorker(worker_id) ==
    LET ct == CleanupT2w(worker_id)
    IN  /\ worker_senders' = Del(worker_senders, worker_id)
        /\ tool_to_workers' = ct.t2w
        /\ tool_rr_index' = Restrict(tool_rr_index, DOMAIN tool_rr_index \ ct.empty)
        /\ tool_schemas' = CleanupSchemas(ct.empty)
        /\ session_affinity' = CleanupAffinity(worker_id)
        /\ busy_workers' = busy_workers \ {worker_id}
        /\ call_to_worker' =
               Restrict(call_to_worker,
                        {cid \in DOMAIN call_to_worker : call_to_worker[cid] # worker_id})
        /\ worker_count' = worker_count - 1
        /\ epoch' = EpochAfter(ct.t2w, worker_senders')
        /\ calls' = [i \in 1..Len(calls) |->
                        IF /\ i \in DOMAIN call_to_worker
                           /\ call_to_worker[i] = worker_id
                           /\ calls[i].st = "waiting"
                        THEN [calls[i] EXCEPT !.orphan = TRUE]
                        ELSE calls[i]]

\* _cleanup_worker drops the worker's call_to_worker entries (hub.py:161-163)
\* and leaves _pending as it is.
CleanupPendingDropsCalls(worker_id) ==
    pending \ {cid \in DOMAIN call_to_worker : call_to_worker[cid] = worker_id}

CleanupPending(worker_id) == pending

Cleanup(c) ==
    /\ connSt[c] = "closed"
    /\ connSt' = [connSt EXCEPT ![c] = "free"]
    /\ connWid' = [connWid EXCEPT ![c] = NoWorker]
    /\ CleanupWorker(connWid[c])
    /\ pending' = CleanupPending(connWid[c])
    /\ registered' = registered \ {c}
    /\ UNCHANGED watch

\* A frame that is not valid JSON arrives inside the receive loop: json.loads
\* raises in _process_message (hub.py:121), no except clause of the handler
\* catches it (hub.py:85-91, 109-116), the finally runs _cleanup_worker and
\* the handler ends, which closes the connection.
FrameInvalid(c) ==
    /\ connSt[c] = "open"
    /\ connSt' = [connSt EXCEPT ![c] = "free"]
    /\ connWid' = [connWid EXCEPT ![c] = NoWorker]
    /\ CleanupWorker(connWid[c])
    /\ pending' = CleanupPending(connWid[c])
    /\ registered' = registered \ {c}
    /\ UNCHANGED watch

(***************************************************************************)
(* Hub._dispatch up to its await on the future (hub.py:207-230).  The call *)
(* id is the dispatch's position in the log.  send raises when the         *)
(* connection behind the sender is closed.                                 *)
(***************************************************************************)
Dispatch(tool_name, session_id) ==
    /\ LET p == PickWorker(tool_name, session_id)
           call_id == Len(calls) + 1
       IN  /\ tool_rr_index' = p.rr
           /\ session_affinity' = p.aff
           /\ IF p.chosen = NoWorker
              THEN /\ calls' = Append(calls,
                          [tool |-> tool_name, sid |-> session_id, wid |-> NoWorker,
                           via |-> p.via, st |-> "done", res |-> ErrNoWorker,
                           orphan |-> FALSE])
                   /\ UNCHANGED <<pending, call_to_worker, busy_workers>>
              ELSE /\ pending' = pending \cup {call_id}
                   /\ call_to_worker' = Put(call_to_worker, call_id, p.chosen)
                   /\ busy_workers' = busy_workers \cup {p.chosen}
                   /\ calls' = Append(calls,
                          [tool |-> tool_name, sid |-> session_id, wid |-> p.chosen,
                           via |-> p.via,
                           st |-> IF connSt[worker_senders[p.chosen]] = "open"
                                  THEN "waiting" ELSE "raised",
                           res |-> IF connSt[worker_senders[p.chosen]] = "open"
                                   THEN NoResult ELSE SendRaised,
                           orphan |-> FALSE])
    /\ UNCHANGED <<connSt, connWid, worker_senders, tool_to_workers, worker_count,
                   tool_schemas, epoch, watch, registered>>

TimeoutPendingKept(call_id) == pending

\* hub.py:232: self._pending.pop(call_id, None)
TimeoutPending(call_id) == pending \ {call_id}

\* asyncio.wait_for raises TimeoutError (hub.py:231-236).
Timeout(call_id) ==
    /\ call_id \in 1..Len(calls)
    /\ calls[call_id].st = "waiting"
    /\ pending' = TimeoutPending(call_id)
    /\ LET c2w == Del(call_to_worker, call_id)
       IN  /\ call_to_worker' = c2w
           /\ busy_workers' = BusyAfter(c2w, calls[call_id].wid)
    /\ calls' = [calls EXCEPT ![call_id].st = "done", ![call_id].res = ErrTimeout]
    /\ UNCHANGED <<connSt, connWid, worker_senders, tool_to_workers, tool_rr_index,
                   session_affinity, worker_count, tool_schemas, epoch, watch,
                   registered>>

\* The task awaiting the dispatch is cancelled (server.py:136-144): the
\* CancelledError passes through _dispatch, which has no handler for it.
CancelDispatch(call_id) ==
    /\ call_id \in 1..Len(calls)
    /\ calls[call_id].st = "waiting"
    /\ calls' = [calls EXCEPT ![call_id].st = "cancelled"]
    /\ UNCHANGED <<connSt, connWid, worker_senders, tool_to_workers, tool_rr_index,
                   session_affinity, pending, busy_workers, call_to_worker,
                   worker_count, tool_schemas, epoch, watch, registered>>

(***************************************************************************)
(* Messages and content blocks.  A string is a sequence of characters.  A  *)
(* message content is a string (kind "str") or a list of blocks (kind      *)
(* "list").  A block is an object of the provider's client library (form   *)
(* "obj") or a plain dict (form "dict").                                   *)
(***************************************************************************)
UserText(text) == [role |-> "user", kind |-> "str", str |-> text, blocks |-> <<>>]
UserBlocks(blocks) == [role |-> "user", kind |-> "list", str |-> <<>>, blocks |-> blocks]
AssistantMsg(blocks) ==
    [role |-> "assistant", kind |-> "list", str |-> <<>>, blocks |-> blocks]
TextBlock(text) == [type |-> "text", id |-> "", text |-> text, form |-> "obj"]
ToolUse(id) == [type |-> "tool_use", id |-> id, text |-> "", form |-> "obj"]
\* conversation.py:77-83
ToolResult(tool_use_id, content) ==
    [type |-> "tool_result", id |-> tool_use_id, text |-> content, form |-> "dict"]

NoResponse == [content |-> <<>>, stop_reason |-> "none"]

\* What the provider answers: text, one tool call, text and two tool calls,
\* or text cut at max_tokens.
Responses ==
    {[content |-> <<TextBlock("a")>>, stop_reason |-> "end_turn"],
     [content |-> <<ToolUse("u1")>>, stop_reason |-> "tool_use"],
     [content |-> <<TextBlock("a"), ToolUse("u1"), ToolUse("u2")>>,
      stop_reason |-> "tool_use"],
     [content |-> <<TextBlock("a")>>, stop_reason |-> "max_tokens"]}

ToolOutcomes == {"ok", "Error: failed"}
ConvTexts == {<<"h", "i">>}

ConvInit ==
    /\ messages = <<>>
    /\ pc = "idle"
    /\ response = NoResponse
    /\ tool_results = <<>>
    /\ blockAt = 0

\* The positions of the tool_use blocks of a content list, after position k.
ToolUsesAfter(content, k) ==
    {i \in (k + 1)..Len(content) : content[i].type = "tool_use"}
Min(S) == CHOOSE x \in S : \A y \in S : x <= y

(***************************************************************************)
(* run_agent_loop (server.py:73-119) over Conversation.send, step and      *)
(* _handle_tool_use (conversation.py:45-85).  Each action runs from one    *)
(* await to the next.                                                      *)
(***************************************************************************)
\* A client message starts a task: conv.send appends the user message and
\* awaits the provider (server.py:81, conversation.py:46-47).
StartTask(user_text) ==
    /\ pc = "idle"
    /\ messages' = Append(messages, UserText(user_text))
    /\ pc' = "send"
    /\ UNCHANGED <<response, tool_results, blockAt>>

\* The provider answers (conversation.py:47-49, 52-54); the loop condition
\* of server.py:83 is evaluated.
ProviderReply(r) ==
    /\ pc \in {"send", "step"}
    /\ messages' = Append(messages, AssistantMsg(r.content))
    /\ response' = r
    /\ pc' = IF r.stop_reason = "tool_use"
             THEN (IF ToolUsesAfter(r.content, 0) # {} THEN "emit" ELSE "step")
             ELSE "finish"
    /\ UNCHANGED <<tool_results, blockAt>>

\* The tool_use events are sent to the client (server.py:84-90) and
\* _handle_tool_use calls the handler of the first tool_use block
\* (conversation.py:63-72).
EmitToolUse ==
    /\ pc = "emit"
    /\ tool_results' = <<>>
    /\ blockAt' = Min(ToolUsesAfter(response.content, 0))
    /\ pc' = "tool"
    /\ UNCHANGED <<messages, response>>

\* The handler returns (conversation.py:72-83); after the last block the
\* results are appended as one user message (conversation.py:84-85).
ToolReturn(result) ==
    /\ pc = "tool"
    /\ LET collected == Append(tool_results,
                               ToolResult(response.content[blockAt].id, result))
           rest == ToolUsesAfter(response.content, blockAt)
       IN  IF rest # {}
           THEN /\ tool_results' = collected
                /\ blockAt' = Min(rest)
                /\ pc' = "tool"
                /\ UNCHANGED messages
           ELSE /\ messages' = Append(messages, UserBlocks(collected))
                /\ tool_results' = <<>>
                /\ blockAt' = 0
                /\ pc' = "report"
    /\ UNCHANGED response

\* The tool_result events are sent and conv.step awaits the provider
\* (server.py:93-102).
ReportResults ==
    /\ pc = "report"
    /\ pc' = "step"
    /\ UNCHANGED <<messages, response, tool_results, blockAt>>

\* The done event is sent and the task ends (server.py:104-111).
FinishTask ==
    /\ pc = "finish"
    /\ pc' = "idle"
    /\ response' = NoResponse
    /\ UNCHANGED <<messages, tool_results, blockAt>>

\* The task is cancelled at its await (server.py:136-144, 113-119), or the
\* await raises (a provider error, a closed client socket): the task ends,
\* its locals are dropped, the transcript stays.
CancelTask ==
    /\ pc # "idle"
    /\ pc' = "idle"
    /\ response' = NoResponse
    /\ tool_results' = <<>>
    /\ blockAt' = 0
    /\ UNCHANGED messages

(***************************************************************************)
(* The session store (sessions.py).  One session; its file is a record,    *)
(* absent before create.                                                   *)
(***************************************************************************)
MAX_MESSAGES == 1000
NameCut == 30

SessionId == <<"1", "2", "3", "4", "5">>
AgentPrefix == <<"A", "g", "e", "n", "t", "-">>
NoFile ==
    [exists |-> FALSE, session_id |-> <<>>, name |-> <<>>, model |-> "",
     system |-> "", max_tokens |-> 0, created_at |-> "", messages |-> <<>>]

StartsWith(str, prefix) ==
    Len(str) >= Len(prefix) /\ SubSeq(str, 1, Len(prefix)) = prefix
\* str[:n]
Prefix(str, n) == SubSeq(str, 1, IF Len(str) < n THEN Len(str) ELSE n)
\* str.strip(): the blanks at both ends are removed.
Strip(str) ==
    LET inked == {i \in 1..Len(str) : str[i] # " "}
    IN  IF inked = {} THEN <<>>
        ELSE SubSeq(str, Min(inked), CHOOSE i \in inked : \A j \in inked : j <= i)

\* sessions.py:15-26: the blocks of an assistant message become dicts.
SerializeMessages(msgs) ==
    [i \in 1..Len(msgs) |->
        IF msgs[i].role = "assistant" /\ msgs[i].kind = "list"
        THEN [msgs[i] EXCEPT !.blocks =
                 [k \in 1..Len(msgs[i].blocks) |->
                     [msgs[i].blocks[k] EXCEPT !.form = "dict"]]]
        ELSE msgs[i]]

TruncateHead(msgs) ==
    IF Len(msgs) > MAX_MESSAGES THEN SubSeq(msgs, 1, MAX_MESSAGES) ELSE msgs

\* The slice taken one message too long.
TruncateOneMore(msgs) ==
    IF Len(msgs) > MAX_MESSAGES
    THEN SubSeq(msgs, Len(msgs) - MAX_MESSAGES, Len(msgs))
    ELSE msgs

\* sessions.py:73-74: the last MAX_MESSAGES messages are kept.
Truncate(msgs) ==
    IF Len(msgs) > MAX_MESSAGES
    THEN SubSeq(msgs, Len(msgs) - MAX_MESSAGES + 1, Len(msgs))
    ELSE msgs

\* sessions.py:75-79: a default name gives way to the first user text.
DerivedName(name, msgs) ==
    LET texts == {i \in 1..Len(msgs) : msgs[i].role = "user" /\ msgs[i].kind = "str"}
    IN  IF StartsWith(name, AgentPrefix) /\ msgs # <<>> /\ texts # {}
        THEN Strip(Prefix(msgs[Min(texts)].str, NameCut))
        ELSE name

SaveAppending(data, msgs) ==
    LET kept == Truncate(data.messages \o SerializeMessages(msgs))
    IN  [data EXCEPT !.messages = kept, !.name = DerivedName(data.name, kept)]

\* SessionStore.save (sessions.py:69-81): the record written from the record read.
Save(data, msgs) ==
    LET kept == Truncate(SerializeMessages(msgs))
    IN  [data EXCEPT !.messages = kept, !.name = DerivedName(data.name, kept)]

StoreInit ==
    /\ file = NoFile
    /\ preSave = <<>>
    /\ beforeSave = NoFile
    /\ lastOp = "none"
    /\ grown = 0

\* The record SessionStore.create writes (sessions.py:43-54).
NewSessionFile ==
    [exists |-> TRUE, session_id |-> SessionId,
     name |-> AgentPrefix \o SubSeq(SessionId, 1, 4),
     model |-> "claude-sonnet-4-20250514", system |-> "",
     max_tokens |-> 8192, created_at |-> "now", messages |-> <<>>]

\* SessionStore.create (sessions.py:37-56).
CreateSession ==
    /\ ~file.exists
    /\ file' = NewSessionFile
    /\ lastOp' = "create"
    /\ UNCHANGED <<preSave, beforeSave, messages, grown>>

\* SessionStore.save of the conversation (sessions.py:69-81).
SaveSession ==
    /\ file.exists
    /\ file' = Save(file, messages)
    /\ beforeSave' = file
    /\ preSave' = messages
    /\ lastOp' = IF lastOp \in {"save", "save save"} THEN "save save" ELSE "save"
    /\ UNCHANGED <<messages, grown>>

\* SessionStore.load (sessions.py:58-67): a conversation with the stored messages.
LoadSession ==
    /\ file.exists
    /\ messages' = file.messages
    /\ lastOp' = IF lastOp \in {"save", "save save"} THEN "save load" ELSE "load"
    /\ UNCHANGED <<file, preSave, beforeSave, grown>>

\* The conversation grows by a message (conversation.py:46, 48, 53, 85).
Converse(msg) ==
    /\ messages' = Append(messages, msg)
    /\ lastOp' = "converse"
    /\ grown' = grown + 1
    /\ UNCHANGED <<file, preSave, beforeSave>>

(***************************************************************************)
(* The server (server.py).  One chat socket of session s1, handled by      *)
(* session_chat_handler (server.py:251-294), whose tasks run               *)
(* run_agent_loop (server.py:73-119) with the hub's dispatch as the        *)
(* handler of tool t1 (hub.py:70-75); and one POST /prompt request         *)
(* (server.py:41-57).                                                      *)
(***************************************************************************)
NoRequest == [st |-> "none", status |-> 0, wc |-> 0]

SrvInit ==
    /\ hpc = "recv"
    /\ cancelling = FALSE
    /\ running = 0
    /\ events = <<>>
    /\ http = NoRequest

\* The task is suspended in _dispatch on the future of the latest call.
AwaitingCall == pc = "tool" /\ Len(calls) > 0 /\ calls[Len(calls)].st = "waiting"

\* _handle_tool_use is about to call the handler of block blockAt: it runs on
\* without suspending, so nothing else runs in between.
Transient == pc = "tool" /\ ~cancelling /\ ~AwaitingCall

\* The frame the task is sending where it is suspended in ws.send_str.
FrameBeingSent ==
    CASE pc = "emit" -> <<"tool_use">>
      [] pc = "report" -> <<"tool_result">>
      [] pc = "finish" -> <<"done">>
      [] OTHER -> <<>>

\* asyncio.create_task(run_agent_loop(...)) and the task's run up to its
\* first await (server.py:286-288, 81; conversation.py:46-47).
AgentStart(text) ==
    /\ messages' = Append(messages, UserText(text))
    /\ pc' = "send"
    /\ response' = NoResponse
    /\ tool_results' = <<>>
    /\ blockAt' = 0
    /\ running' = running + 1
    /\ events' = <<>>

\* current_task.cancel() (server.py:271-272): the future the task awaits is
\* cancelled with it; _dispatch has no handler for the CancelledError.
CancelRequest ==
    /\ cancelling' = TRUE
    /\ IF AwaitingCall
       THEN CancelDispatch(Len(calls))
       ELSE UNCHANGED hubVars

\* A message frame that is not empty (server.py:284-288).
ClientMessage(text) ==
    /\ hpc = "recv" /\ ~Transient
    /\ IF running > 0
       THEN /\ CancelRequest
            /\ hpc' = "message_wait"
            /\ UNCHANGED <<convVars, running, events>>
       ELSE /\ AgentStart(text)
            /\ UNCHANGED <<hubVars, hpc, cancelling>>
    /\ UNCHANGED <<storeVars, http, extVars>>

\* A cancel frame while a task is in flight (server.py:282-283).
ClientCancel ==
    /\ hpc = "recv" /\ ~Transient
    /\ running > 0
    /\ CancelRequest
    /\ hpc' = "cancel_wait"
    /\ UNCHANGED <<convVars, storeVars, running, events, http, extVars>>

\* The client socket closes (server.py:289-292).
ClientClose ==
    /\ hpc = "recv" /\ ~Transient
    /\ IF running > 0
       THEN /\ CancelRequest
            /\ hpc' = "close_wait"
       ELSE /\ hpc' = "closed"
            /\ UNCHANGED <<hubVars, cancelling>>
    /\ UNCHANGED <<convVars, storeVars, running, events, http, extVars>>

\* The task runs with the CancelledError (server.py:113-119): the cancelled
\* event is sent unless the socket is gone, and the conversation is saved.
\* The frame the task was sending when it was cancelled has or has not gone
\* out before the send suspended.
TaskCancelled(sent) ==
    /\ cancelling /\ pc # "idle"
    /\ sent => FrameBeingSent # <<>>
    /\ CancelTask
    /\ events' = events \o (IF sent THEN FrameBeingSent ELSE <<>>)
                        \o (IF hpc = "close_wait" THEN <<>> ELSE <<"cancelled">>)
    /\ file' = Save(file, messages)
    /\ cancelling' = FALSE
    /\ running' = running - 1
    /\ UNCHANGED <<hubVars, preSave, beforeSave, lastOp, grown, hpc, http, extVars>>

CancelNotAwaited == TRUE

\* server.py:273-276: await current_task returns when the task is done.
CancelAwaited == running = 0

\* _cancel_current returns (server.py:277) and the handler goes on: a message
\* starts its task, a close ends the handler.
HandlerResume ==
    /\ hpc \in {"message_wait", "cancel_wait", "close_wait"}
    /\ CancelAwaited
    /\ IF hpc = "message_wait"
       THEN /\ \E text \in ConvTexts : AgentStart(text)
            /\ hpc' = "recv"
       ELSE /\ hpc' = IF hpc = "close_wait" THEN "closed" ELSE "recv"
            /\ UNCHANGED <<convVars, running, events>>
    /\ UNCHANGED <<hubVars, storeVars, cancelling, http, extVars>>

\* The provider answers the task (conversation.py:47-54, server.py:83).
AgentReply(r) ==
    /\ ~cancelling
    /\ ProviderReply(r)
    /\ UNCHANGED <<hubVars, storeVars, srvVars, extVars>>

\* The tool_use events are out (server.py:84-90); _handle_tool_use begins.
AgentEmit ==
    /\ ~cancelling
    /\ EmitToolUse
    /\ events' = Append(events, "tool_use")
    /\ UNCHANGED <<hubVars, storeVars, hpc, cancelling, running, http, extVars>>

HandlerResultDropsErrors(e) == IF e.st = "waiting" THEN e.res ELSE ""

\* conversation.py:71-74: the handler's return value, or the text of what it
\* raised.
HandlerResult(e) == IF e.st = "raised" THEN "Error: " \o e.res ELSE e.res

\* _handle_tool_use calls the handler of the block (conversation.py:72),
\* which is the dispatch of the session (hub.py:73-74).  A dispatch that ends
\* before its await gives its result to the loop at once.
AgentCall(tool_name, session_id) ==
    /\ Transient
    /\ InList(tool_name, bound_tools)
    /\ Dispatch(tool_name, session_id)
    /\ LET e == calls'[Len(calls')]
       IN  IF e.st = "waiting"
           THEN UNCHANGED convVars
           ELSE ToolReturn(HandlerResult(e))
    /\ UNCHANGED <<storeVars, srvVars, extVars>>

\* A tool_result frame; the task awaiting that call goes on with its content
\* (hub.py:130-137, 230; conversation.py:72-85).
AgentFrameToolResult(c, call_id, content) ==
    /\ ~Transient
    /\ FrameToolResult(c, call_id, content)
    /\ IF AwaitingCall /\ call_id = Len(calls) /\ ~cancelling
       THEN ToolReturn(content)
       ELSE UNCHANGED convVars
    /\ UNCHANGED <<storeVars, srvVars, extVars>>

\* The deadline of the awaited call fires (hub.py:231-236).
AgentTimeout(call_id) ==
    /\ ~Transient /\ ~cancelling
    /\ AwaitingCall /\ call_id = Len(calls)
    /\ Timeout(call_id)
    /\ ToolReturn(ErrTimeout)
    /\ UNCHANGED <<storeVars, srvVars, extVars>>

\* The tool_result events are out (server.py:93-102).
AgentReport ==
    /\ ~cancelling
    /\ ReportResults
    /\ events' = Append(events, "tool_result")
    /\ UNCHANGED <<hubVars, storeVars, hpc, cancelling, running, http, extVars>>

\* The done event is out, the conversation is saved and the task ends
\* (server.py:104-111).
AgentFinish ==
    /\ ~cancelling
    /\ FinishTask
    /\ events' = Append(events, "done")
    /\ file' = Save(file, messages)
    /\ running' = running - 1
    /\ UNCHANGED <<hubVars, preSave, beforeSave, lastOp, grown, hpc, cancelling, http, extVars>>

\* The provider call raises: the exception ends the task (server.py:80-113
\* has no handler for it).
AgentFails ==
    /\ ~cancelling
    /\ pc \in {"send", "step"}
    /\ CancelTask
    /\ running' = running - 1
    /\ UNCHANGED <<hubVars, storeVars, hpc, cancelling, events, http, extVars>>

\* POST /prompt (server.py:41-57): 400 for an empty prompt; otherwise a new
\* conversation runs run_until_done (conversation.py:87-88), whatever
\* worker_count is.
PromptRequest(prompt_text) ==
    /\ http.st = "none"
    /\ IF prompt_text = <<>>
       THEN /\ http' = [st |-> "answered", status |-> 400, wc |-> worker_count]
            /\ UNCHANGED convVars
       ELSE /\ http' = [st |-> "running", status |-> 0, wc |-> worker_count]
            /\ messages' = <<UserText(prompt_text)>>
            /\ pc' = "send"
            /\ UNCHANGED <<response, tool_results, blockAt>>
    /\ UNCHANGED <<hubVars, storeVars, hpc, cancelling, running, events, extVars>>

\* run_until_done returns and the result is answered (conversation.py:94-95,
\* server.py:57).
PromptAnswer ==
    /\ http.st = "running"
    /\ FinishTask
    /\ http' = [http EXCEPT !.st = "answered", !.status = 200]
    /\ UNCHANGED <<hubVars, storeVars, hpc, cancelling, running, events, extVars>>

(***************************************************************************)
(* The session file on disk (sessions.py:54-55, 70-71, 80-81).  The JSON   *)
(* text of a record is a sequence of chunks: the opening brace, one chunk  *)
(* per key, the closing brace.  open(path, "w") truncates the file,        *)
(* json.dump writes the chunks through the file object's buffer, and the   *)
(* end of the with block flushes and closes.  The process can die between  *)
(* any two of these steps.                                                 *)
(***************************************************************************)
Keys == <<"session_id", "name", "model", "system", "max_tokens", "created_at",
          "messages">>

\* json.dump(data, f, indent=2): the text of a record.
JsonDump(data) ==
    <<[key |-> "{", val |-> <<>>]>>
    \o [i \in 1..Len(Keys) |->
           [key |-> Keys[i],
            val |-> CASE Keys[i] = "session_id" -> <<data.session_id>>
                      [] Keys[i] = "name" -> <<data.name>>
                      [] Keys[i] = "model" -> <<data.model>>
                      [] Keys[i] = "system" -> <<data.system>>
                      [] Keys[i] = "max_tokens" -> <<data.max_tokens>>
                      [] Keys[i] = "created_at" -> <<data.created_at>>
                      [] OTHER -> <<data.messages>>]]
    \o <<[key |-> "}", val |-> <<>>]>>

\* json.load(f) raises on a text that is not one whole object.
Parses(text) ==
    /\ Len(text) = Len(Keys) + 2
    /\ text[1].key = "{"
    /\ text[Len(text)].key = "}"
    /\ \A i \in 1..Len(Keys) : text[i + 1].key = Keys[i]

JsonLoad(text) ==
    [exists |-> TRUE,
     session_id |-> text[2].val[1], name |-> text[3].val[1],
     model |-> text[4].val[1], system |-> text[5].val[1],
     max_tokens |-> text[6].val[1], created_at |-> text[7].val[1],
     messages |-> text[8].val[1]]

\* No file on disk and no write under way.
DiskInit ==
    /\ disk = [exists |-> FALSE, text |-> <<>>]
    /\ wr = [step |-> "none", data |-> NoFile, prev |-> disk]

\* SessionStore.create up to the open (sessions.py:43-54); after
\* open(path, "w") the file exists and is empty.
CreateOpen ==
    /\ wr.step = "none"
    /\ ~disk.exists
    /\ wr' = [step |-> "dump", data |-> NewSessionFile, prev |-> disk]
    /\ disk' = [exists |-> TRUE, text |-> <<>>]

\* SessionStore.save up to the second open (sessions.py:70-80); the first
\* open raises when there is no file, json.load when the text is not whole.
SaveOpen(msgs) ==
    /\ wr.step = "none"
    /\ disk.exists /\ Parses(disk.text)
    /\ wr' = [step |-> "dump", data |-> Save(JsonLoad(disk.text), msgs),
              prev |-> disk]
    /\ disk' = [exists |-> TRUE, text |-> <<>>]

\* json.dump is under way and the buffer is written out (sessions.py:55,
\* 81): the first k chunks are on disk.
WriteFlush(k) ==
    /\ wr.step = "dump"
    /\ k > Len(disk.text) /\ k < Len(JsonDump(wr.data))
    /\ disk' = [disk EXCEPT !.text = SubSeq(JsonDump(wr.data), 1, k)]
    /\ UNCHANGED wr

\* The with block ends: the rest is flushed and the file closed.
WriteClose ==
    /\ wr.step = "dump"
    /\ disk' = [disk EXCEPT !.text = JsonDump(wr.data)]
    /\ wr' = [wr EXCEPT !.step = "none"]

\* The process dies during the write and is started again.
Crash ==
    /\ wr.step = "dump"
    /\ wr' = [wr EXCEPT !.step = "none"]
    /\ UNCHANGED disk

(***************************************************************************)
(* Two sessions of the store: s1 in file, s2 in other; and the routes      *)
(* POST /sessions/{id}/clear and /sessions/clear-all-history               *)
(* (server.py:199-211).  SessionStore.clear_history and clear_all_history  *)
(* are called there and are not part of sessions.py: they follow the       *)
(* specification, a record whose messages are the empty list.              *)
(***************************************************************************)
\* The record of the second session as SessionStore.create writes it
\* (sessions.py:43-54).
OtherSessionFile ==
    [NewSessionFile EXCEPT !.session_id = <<"6", "7", "8", "9", "0">>,
                           !.name = AgentPrefix \o <<"6", "7", "8", "9">>]

ClearHistory(data) == [data EXCEPT !.messages = <<>>]

ClearedByAnyId(session_id) == {"s1", "s2"}

\* server.py:201, 204: the id of the path is the one handed to the store.
ClearedBy(session_id) == {session_id}

\* clear_session_history (server.py:199-205).
ClearSessionHistory(session_id) ==
    /\ LET found == IF session_id = "s1" THEN file.exists ELSE other.exists
           cleared == IF found THEN ClearedBy(session_id) ELSE {}
       IN  /\ http' = [st |-> "answered", status |-> IF found THEN 204 ELSE 404,
                       wc |-> worker_count]
           /\ file' = IF "s1" \in cleared /\ file.exists
                      THEN ClearHistory(file) ELSE file
           /\ other' = IF "s2" \in cleared /\ other.exists
                       THEN ClearHistory(other) ELSE other
    /\ lastOp' = "clear " \o session_id
    /\ UNCHANGED <<preSave, beforeSave, messages, grown>>

\* clear_all_history (server.py:208-211).
ClearAllHistory ==
    /\ http' = [st |-> "answered", status |-> 204, wc |-> worker_count]
    /\ file' = IF file.exists THEN ClearHistory(file) ELSE file
    /\ other' = IF other.exists THEN ClearHistory(other) ELSE other
    /\ lastOp' = "clear all"
    /\ UNCHANGED <<preSave, beforeSave, messages, grown>>

(***************************************************************************)
(* POST /sessions/{id}/prompt on session s1 (server.py:229-248): the       *)
(* session is loaded, run_until_done awaits the provider, the conversation *)
(* is saved.  Several requests are in flight on the event loop at once;    *)
(* each has its own Conversation.                                          *)
(***************************************************************************)
\* What the provider answers a turn: as Responses, or two text blocks around
\* a tool call, cut at max_tokens.
TurnResponses ==
    Responses \cup
        {[content |-> <<TextBlock("a"), ToolUse("u1"), TextBlock("b")>>,
          stop_reason |-> "max_tokens"]}

NoReturn == <<"no return">>

TextJoinedPlain(content) ==
    LET text_parts == SelectSeq(content, LAMBDA b : b.type = "text")
    IN  [k \in 1..Len(text_parts) |-> text_parts[k].text]

\* conversation.py:94-95: "\n".join of the text of the text blocks; the
\* string is the sequence of its pieces.
TextJoined(content) ==
    LET text_parts == SelectSeq(content, LAMBDA b : b.type = "text")
        n == Len(text_parts)
    IN  [k \in 1..(IF n = 0 THEN 0 ELSE 2 * n - 1) |->
            IF k % 2 = 1 THEN text_parts[(k + 1) \div 2].text ELSE "\n"]

\* creates counts the calls of _create (conversation.py:43), resp is the
\* local variable response of run_until_done, result what it returned.
TurnsInit ==
    turns = [i \in 1..NumTurns |->
                [pc |-> "idle", prompt |-> <<>>, base |-> 0, messages |-> <<>>,
                 creates |-> 0, resp |-> NoResponse, result |-> NoReturn]]

\* server.py:234-237: the session exists and the handler awaits the body of
\* the request (a session that does not exist is answered 404).
TurnExists(i) ==
    /\ turns[i].pc = "idle"
    /\ file.exists
    /\ turns' = [turns EXCEPT ![i].pc = "checked"]
    /\ UNCHANGED file

\* server.py:238-245 and conversation.py:88, 46-47: load, send up to the
\* provider call.  base is the length of the transcript that was loaded.
\* open raises FileNotFoundError when the file is gone (sessions.py:59).
TurnLoad(i, prompt_text) ==
    /\ turns[i].pc = "checked"
    /\ turns' = IF file.exists
                THEN [turns EXCEPT ![i] =
                         [pc |-> "send", prompt |-> prompt_text,
                          base |-> Len(file.messages),
                          messages |-> Append(file.messages, UserText(prompt_text)),
                          creates |-> 1, resp |-> NoResponse, result |-> NoReturn]]
                ELSE [turns EXCEPT ![i].pc = "lost"]
    /\ UNCHANGED file

SaveOrCreate(data, msgs) ==
    [raised |-> FALSE,
     data |-> Save(IF data.exists THEN data ELSE NewSessionFile, msgs)]

\* SessionStore.save on a file that may be gone: open(path, "r") raises
\* FileNotFoundError before anything is written (sessions.py:70-71).
SaveOutcome(data, msgs) ==
    IF data.exists
    THEN [raised |-> FALSE, data |-> Save(data, msgs)]
    ELSE [raised |-> TRUE, data |-> data]

\* DELETE /sessions/{id} (server.py:220-226, sessions.py:102-105).
DeleteSession ==
    /\ file.exists
    /\ file' = NoFile
    /\ UNCHANGED turns

\* The provider answers (conversation.py:48, 53, 90).  On its final answer
\* run_until_done returns and the conversation is saved (conversation.py:
\* 94-95, server.py:245-246); the turn is unsaved when save raised.
TurnReply(i, r) ==
    /\ turns[i].pc \in {"send", "step"}
    /\ LET msgs == Append(turns[i].messages, AssistantMsg(r.content))
       IN  IF r.stop_reason = "tool_use"
           THEN /\ turns' = [turns EXCEPT
                               ![i].messages = msgs,
                               ![i].resp = r,
                               ![i].creates = IF ToolUsesAfter(r.content, 0) # {}
                                              THEN @ ELSE @ + 1,
                               ![i].pc = IF ToolUsesAfter(r.content, 0) # {}
                                         THEN "tool" ELSE "step"]
                /\ UNCHANGED file
           ELSE LET saved == SaveOutcome(file, msgs)
                IN  /\ turns' = [turns EXCEPT
                                    ![i].messages = msgs,
                                    ![i].pc = IF saved.raised THEN "unsaved" ELSE "done",
                                    ![i].resp = r,
                                    ![i].result = TextJoined(r.content)]
                    /\ file' = saved.data

\* _handle_tool_use has the results of all blocks and appends them
\* (conversation.py:62-85, 91-92).
TurnTools(i, result) ==
    /\ turns[i].pc = "tool"
    /\ LET msgs == turns[i].messages
           blocks == msgs[Len(msgs)].blocks
           uses == SelectSeq(blocks, LAMBDA b : b.type = "tool_use")
       IN  turns' = [turns EXCEPT
                        ![i].pc = "step",
                        ![i].creates = @ + 1,
                        ![i].messages =
                            Append(msgs, UserBlocks([k \in 1..Len(uses) |->
                                                ToolResult(uses[k].id, result)]))]
    /\ UNCHANGED file

(***************************************************************************)
(* The worker pool manager (worker_manager.py).  An entry is a record of   *)
(* id number n (for "w<n>"), port and pid.  Every method runs without      *)
(* suspending and saves the config it changed, so pool is both the list in *)
(* memory and the one in worker_pool.json.                                 *)
(***************************************************************************)
BasePort == 8081

NoOp == [op |-> "none", target |-> 0, before |-> 0, tick |-> FALSE]

PoolInit ==
    /\ pool = <<>>
    /\ procs = {}
    /\ mgr = [st |-> "down", spawned |-> 0, last |-> NoOp]

\* worker_manager.py:53-58
NextWorkerId(workers) ==
    LET existing == {workers[i].id : i \in 1..Len(workers)}
    IN  CHOOSE n \in 1..(Len(workers) + 1) :
            n \notin existing /\ \A m \in 1..(n - 1) : m \in existing

\* worker_manager.py:69-75; the ports bound on the host are those of the
\* live worker processes, whose entries are in the list.
FindFreePort(workers) ==
    LET used == {workers[i].port : i \in 1..Len(workers)}
    IN  CHOOSE port \in BasePort..(BasePort + Len(workers)) :
            port \notin used /\ \A q \in BasePort..(port - 1) : q \in used

\* add_worker (worker_manager.py:85-99) on a state [workers, alive, spawned].
AddWorkerTo(st) ==
    LET entry == [id |-> NextWorkerId(st.workers),
                  port |-> FindFreePort(st.workers),
                  pid |-> st.spawned + 1]
    IN  [workers |-> Append(st.workers, entry),
         alive |-> st.alive \cup {entry.pid},
         spawned |-> st.spawned + 1]

\* remove_worker (worker_manager.py:101-108): the first entry of that id is
\* killed, every entry of that id is dropped.
RemoveWorkerFrom(st, worker_id) ==
    LET found == {i \in 1..Len(st.workers) : st.workers[i].id = worker_id}
    IN  IF found = {} THEN st
        ELSE [st EXCEPT
                !.alive = st.alive \ {st.workers[Min(found)].pid},
                !.workers = SelectSeq(st.workers, LAMBDA w : w.id # worker_id)]

RECURSIVE AddLoop(_, _)
AddLoop(st, n) == IF n <= 0 THEN st ELSE AddLoop(AddWorkerTo(st), n - 1)

RECURSIVE RemoveLoop(_, _)
RemoveLoop(st, to_remove) ==
    IF to_remove = <<>> THEN st
    ELSE RemoveLoop(RemoveWorkerFrom(st, Head(to_remove).id), Tail(to_remove))

ToRemoveFromHead(workers, n) ==
    SubSeq(workers, 1, IF n < Len(workers) THEN n ELSE Len(workers))

\* worker_manager.py:126: list(reversed(self.workers))[: current - target]
ToRemove(workers, n) ==
    SubSeq([i \in 1..Len(workers) |-> workers[Len(workers) + 1 - i]],
           1, IF n < Len(workers) THEN n ELSE Len(workers))

\* scale_to (worker_manager.py:118-130).
ScaleToFrom(st, target) ==
    LET current == Len(st.workers)
    IN  IF target > current THEN AddLoop(st, target - current)
        ELSE IF target < current
        THEN RemoveLoop(st, ToRemove(st.workers, current - target))
        ELSE st

PoolState == [workers |-> pool, alive |-> procs, spawned |-> mgr.spawned]

\* The manager's state after an operation; last is the operation, its
\* argument, the length of the list before it, and a bit that every
\* operation flips.
PoolBecomes(st, op, target) ==
    /\ pool' = st.workers
    /\ procs' = st.alive
    /\ mgr' = [mgr EXCEPT !.spawned = st.spawned,
                          !.last = [op |-> op, target |-> target,
                                    before |-> Len(pool),
                                    tick |-> ~mgr.last.tick]]

\* create_app (worker_manager.py:250-253): PoolManager() loads the config
\* and recover() loads it again (worker_manager.py:27-30, 179-181).
ManagerStart ==
    /\ mgr.st = "down"
    /\ mgr' = [mgr EXCEPT !.st = "up"]
    /\ UNCHANGED <<pool, procs>>

\* The manager process ends; the worker processes and the config stay.
ManagerStop ==
    /\ mgr.st = "up"
    /\ mgr' = [mgr EXCEPT !.st = "down"]
    /\ UNCHANGED <<pool, procs>>

\* POST /api/workers with count 1 (worker_manager.py:212-219).
AddWorker ==
    /\ mgr.st = "up"
    /\ PoolBecomes(AddWorkerTo(PoolState), "add", 1)

\* DELETE /api/workers/{id} (worker_manager.py:222-227).
RemoveWorker(worker_id) ==
    /\ mgr.st = "up"
    /\ PoolBecomes(RemoveWorkerFrom(PoolState, worker_id), "remove", worker_id)

\* POST /api/scale (worker_manager.py:236-243).
ScaleTo(target) ==
    /\ mgr.st = "up"
    /\ PoolBecomes(ScaleToFrom(PoolState, target), "scale", target)

\* A worker process dies on its own.
ProcDies(pid) ==
    /\ pid \in procs
    /\ procs' = procs \ {pid}
    /\ UNCHANGED <<pool, mgr>>

(***************************************************************************)
(* The tool registries of the conversations.  The hub registers a tool on  *)
(* its own conversation when the first schema of that name arrives         *)
(* (hub.py:175-182) and takes it away when the tool's last worker goes     *)
(* (hub.py:152-153).  A chat socket's conversation gets the tools the hub  *)
(* has when the socket opens (server.py:267-268, hub.py:70-75).  A         *)
(* registry is the list of the names in conv.tools, which are the keys of  *)
(* conv.tool_handlers (conversation.py:29-31).                             *)
(***************************************************************************)
ErrNoHandler == "Error: no handler registered for tool"

ToolsInit ==
    /\ conversation_tools = <<>>
    /\ bound_tools = <<>>

\* A connection registers (hub.py:77-83, 124-128); the schemas this frame
\* appended to _tool_schemas are registered on self.conversation
\* (hub.py:175-182).
ToolsConnectRegister(c, worker_id, schemas) ==
    /\ ConnectRegister(c, worker_id, schemas)
    /\ conversation_tools' =
           conversation_tools \o SubSeq(tool_schemas', Len(tool_schemas) + 1,
                                        Len(tool_schemas'))
    /\ UNCHANGED bound_tools

\* _cleanup_worker (hub.py:139-166); the emptied tools leave
\* self.conversation (hub.py:149-153).
ToolsCleanup(c) ==
    /\ Cleanup(c)
    /\ conversation_tools' =
           SelectSeq(conversation_tools,
                     LAMBDA n : n \notin CleanupT2w(connWid[c]).empty)
    /\ UNCHANGED bound_tools

\* A chat socket opens: register_tools_on a new conversation (hub.py:70-75).
RegisterToolsOn ==
    /\ bound_tools' = tool_schemas
    /\ UNCHANGED <<hubVars, conversation_tools>>

AgentNoHandlerRaises(tool_name) ==
    /\ Transient
    /\ ~InList(tool_name, bound_tools)
    /\ CancelTask
    /\ running' = running - 1
    /\ UNCHANGED <<hubVars, storeVars, hpc, cancelling, events, http, extVars>>

\* conversation.py:67-69: the block names a tool the conversation has no
\* handler for.
AgentNoHandler(tool_name) ==
    /\ Transient
    /\ ~InList(tool_name, bound_tools)
    /\ ToolReturn(ErrNoHandler)
    /\ UNCHANGED <<hubVars, storeVars, srvVars, extVars>>

(***************************************************************************)
(* Specification Spec: calls and their completion.  Two workers over two   *)
(* connection slots provide one tool; every kind of frame occurs.  The     *)
(* caps: the number of dispatches, and how far worker_count drifts from    *)
(* the number of connections (one up for each repeated register frame, one *)
(* down for each connection that never registers).                         *)
(***************************************************************************)
\* GET /healthz (server.py:34-38): the status code of the answer.
Healthz == IF worker_count > 0 THEN 200 ELSE 503

Drift == worker_count - Cardinality({c \in DOMAIN connSt : connSt[c] # "free"})

ExtInit ==
    /\ DiskInit
    /\ other = NoFile
    /\ TurnsInit
    /\ PoolInit
    /\ ToolsInit
    /\ rr_count = [t \in Tools |-> 0]

Init == HubInit /\ watch = {} /\ ConvInit /\ StoreInit /\ SrvInit /\ ExtInit

Next ==
    \/ \E c \in 1..NumConns, w \in Workers : ConnectRegister(c, w, <<"t1">>)
          /\ UNCHANGED <<convVars, storeVars, srvVars, extVars>>
    \/ \E c \in 1..NumConns, w \in Workers : Drift > -MaxDrift /\ ConnectOther(c, w)
          /\ UNCHANGED <<convVars, storeVars, srvVars, extVars>>
    \/ \E c \in 1..NumConns : Drift < MaxDrift /\ FrameRegister(c, <<"t1">>)
          /\ UNCHANGED <<convVars, storeVars, srvVars, extVars>>
    \/ \E c \in 1..NumConns, cid \in 0..MaxCalls : FrameToolResult(c, cid, "r1")
          /\ UNCHANGED <<convVars, storeVars, srvVars, extVars>>
    \/ \E c \in 1..NumConns : Close(c)
          /\ UNCHANGED <<convVars, storeVars, srvVars, extVars>>
    \/ \E c \in 1..NumConns : Cleanup(c)
          /\ UNCHANGED <<convVars, storeVars, srvVars, extVars>>
    \/ Len(calls) < MaxCalls /\ Dispatch("t1", NoSession)
          /\ UNCHANGED <<convVars, storeVars, srvVars, extVars>>
    \/ \E cid \in 1..MaxCalls : Timeout(cid)
          /\ UNCHANGED <<convVars, storeVars, srvVars, extVars>>
    \/ \E cid \in 1..MaxCalls : CancelDispatch(cid)
          /\ UNCHANGED <<convVars, storeVars, srvVars, extVars>>

Spec == Init /\ [][Next]_vars

\* The deadline of asyncio.wait_for is a timer of the event loop: it fires.
FairSpec ==
    /\ Spec
    /\ \A cid \in 1..MaxCalls :
          WF_vars(Timeout(cid) /\ UNCHANGED <<convVars, storeVars, srvVars, extVars>>)

(***************************************************************************)
(* Specification RegSpec: the tool registry.  Workers register any of the  *)
(* tool lists, repeat register frames, connect without registering and     *)
(* disconnect; a dispatch records which tools had a provider.              *)
(***************************************************************************)
RegNext ==
    \/ \E c \in 1..NumConns, w \in Workers, ts \in ToolLists : ConnectRegister(c, w, ts)
          /\ UNCHANGED <<convVars, storeVars, srvVars, extVars>>
    \/ \E c \in 1..NumConns, w \in Workers : Drift > -MaxDrift /\ ConnectOther(c, w)
          /\ UNCHANGED <<convVars, storeVars, srvVars, extVars>>
    \/ \E c \in 1..NumConns, ts \in ToolLists :
          Drift < MaxDrift /\ FrameRegister(c, ts)
          /\ UNCHANGED <<convVars, storeVars, srvVars, extVars>>
    \/ \E c \in 1..NumConns : Close(c)
          /\ UNCHANGED <<convVars, storeVars, srvVars, extVars>>
    \/ \E c \in 1..NumConns : Cleanup(c)
          /\ UNCHANGED <<convVars, storeVars, srvVars, extVars>>
    \/ \E t \in Tools : Len(calls) < RegCalls /\ Dispatch(t, NoSession)
          /\ UNCHANGED <<convVars, storeVars, srvVars, extVars>>
    \/ \E c \in 1..NumConns : FrameInvalid(c)
          /\ UNCHANGED <<convVars, storeVars, srvVars, extVars>>

RegSpec == Init /\ [][RegNext]_vars

(***************************************************************************)
(* Specification RouteSpec: routing.  Workers register once per            *)
(* connection, disconnect and reconnect; a session and session-less        *)
(* callers dispatch the tool; epoch follows its round-robin periods.       *)
(***************************************************************************)
RouteInit ==
    HubInit /\ watch = {"t1"} /\ ConvInit /\ StoreInit /\ SrvInit /\ ExtInit

RouteNext ==
    \/ \E c \in 1..NumConns, w \in Workers : ConnectRegister(c, w, <<"t1">>)
          /\ UNCHANGED <<convVars, storeVars, srvVars, extVars>>
    \/ \E c \in 1..NumConns : Close(c)
          /\ UNCHANGED <<convVars, storeVars, srvVars, extVars>>
    \/ \E c \in 1..NumConns : Cleanup(c)
          /\ UNCHANGED <<convVars, storeVars, srvVars, extVars>>
    \/ \E s \in Sessions \cup {NoSession} :
          Len(calls) < RouteCalls /\ Dispatch("t1", s)
          /\ UNCHANGED <<convVars, storeVars, srvVars, extVars>>

RouteSpec == RouteInit /\ [][RouteNext]_vars

(***************************************************************************)
(* Specification CorrSpec: correlation of calls and results.  A session    *)
(* and session-less callers have several dispatches outstanding at once;   *)
(* the connected workers answer each call id, in any order and any number  *)
(* of times, with the content that belongs to it; deadlines fire.          *)
(***************************************************************************)
ContentOf(call_id) == "result of call " \o ToString(call_id)

CorrNext ==
    \/ \E c \in 1..NumConns, w \in Workers : ConnectRegister(c, w, <<"t1">>)
          /\ UNCHANGED <<convVars, storeVars, srvVars, extVars>>
    \/ \E c \in 1..NumConns, cid \in 1..CorrCalls :
          FrameToolResult(c, cid, ContentOf(cid))
          /\ UNCHANGED <<convVars, storeVars, srvVars, extVars>>
    \/ \E s \in Sessions \cup {NoSession} :
          Len(calls) < CorrCalls /\ Dispatch("t1", s)
          /\ UNCHANGED <<convVars, storeVars, srvVars, extVars>>
    \/ \E cid \in 1..CorrCalls : Timeout(cid)
          /\ UNCHANGED <<convVars, storeVars, srvVars, extVars>>

CorrSpec == Init /\ [][CorrNext]_vars

(***************************************************************************)
(* Specification ConvSpec: the agent loop of one client socket.  Messages  *)
(* start tasks, the provider answers, tools return, and a task is          *)
(* cancelled or fails at any await.  The cap: the transcript length.       *)
(***************************************************************************)
ConvInit0 == HubInit /\ watch = {} /\ ConvInit /\ StoreInit /\ SrvInit /\ ExtInit

ConvNext ==
    \/ \E text \in ConvTexts :
          Len(messages) < MaxMsgs /\ StartTask(text)
          /\ UNCHANGED <<hubVars, storeVars, srvVars, extVars>>
    \/ \E r \in Responses :
          Len(messages) < MaxMsgs /\ ProviderReply(r)
          /\ UNCHANGED <<hubVars, storeVars, srvVars, extVars>>
    \/ EmitToolUse /\ UNCHANGED <<hubVars, storeVars, srvVars, extVars>>
    \/ \E result \in ToolOutcomes :
          ToolReturn(result) /\ UNCHANGED <<hubVars, storeVars, srvVars, extVars>>
    \/ ReportResults /\ UNCHANGED <<hubVars, storeVars, srvVars, extVars>>
    \/ FinishTask /\ UNCHANGED <<hubVars, storeVars, srvVars, extVars>>
    \/ CancelTask /\ UNCHANGED <<hubVars, storeVars, srvVars, extVars>>

ConvSpec == ConvInit0 /\ [][ConvNext]_vars

(***************************************************************************)
(* Specification StoreSpec: one session of the store.  The conversation    *)
(* starts empty or one message short of MAX_MESSAGES, grows by sample      *)
(* messages, is saved and loaded.  The cap: the messages added.            *)
(***************************************************************************)
SampleText == <<"h", "i">>
PaddedText == <<" ", "A", "g", "e", "n", "t", "-", "b", " ">>
LongText == [i \in 1..(NameCut + 2) |-> IF i = NameCut THEN " " ELSE "a"]

SampleMessages ==
    {UserText(SampleText), UserText(PaddedText), UserText(LongText),
     AssistantMsg(<<TextBlock("a")>>), AssistantMsg(<<ToolUse("u1")>>),
     UserBlocks(<<ToolResult("u1", "ok")>>)}

Filler(n) == [i \in 1..n |-> AssistantMsg(<<TextBlock("f")>>)]

StoreInit0 ==
    /\ HubInit /\ watch = {}
    /\ pc = "idle" /\ response = NoResponse /\ tool_results = <<>> /\ blockAt = 0
    /\ messages \in {<<>>, Filler(MAX_MESSAGES - 1),
                     <<UserText(PaddedText)>> \o Filler(MAX_MESSAGES - 2)}
    /\ StoreInit
    /\ SrvInit
    /\ ExtInit

StoreNext ==
    \/ CreateSession /\ UNCHANGED <<hubVars, pc, response, tool_results, blockAt, srvVars, extVars>>
    \/ SaveSession /\ UNCHANGED <<hubVars, pc, response, tool_results, blockAt, srvVars, extVars>>
    \/ LoadSession /\ UNCHANGED <<hubVars, pc, response, tool_results, blockAt, srvVars, extVars>>
    \/ \E msg \in SampleMessages :
          grown < MaxTranscript /\ Converse(msg)
          /\ UNCHANGED <<hubVars, pc, response, tool_results, blockAt, srvVars, extVars>>

StoreSpec == StoreInit0 /\ [][StoreNext]_vars

(***************************************************************************)
(* Specification AgentSpec: the chat socket of session s1.  The client     *)
(* sends messages and cancel frames and closes; the tasks run the agent    *)
(* loop with the hub's dispatch of t1 as tool handler; the provider may    *)
(* also name t2, for which the conversation has no handler; workers        *)
(* register, answer and disconnect; deadlines fire.  The caps: the         *)
(* transcript length and the number of dispatches.                         *)
(***************************************************************************)
AgentInit ==
    /\ HubInit /\ watch = {}
    /\ ConvInit
    /\ SrvInit
    /\ file = NewSessionFile
    /\ preSave = <<>>
    /\ beforeSave = NoFile
    /\ lastOp = "none"
    /\ grown = 0
    /\ DiskInit
    /\ other = NoFile
    /\ TurnsInit
    /\ PoolInit
    /\ conversation_tools = <<>>
    /\ bound_tools = <<"t1">>
    /\ rr_count = [t \in Tools |-> 0]

AgentNext ==
    \/ \E c \in 1..AgentConns, w \in Workers :
          ~Transient /\ ConnectRegister(c, w, <<"t1">>)
          /\ UNCHANGED <<convVars, storeVars, srvVars, extVars>>
    \/ \E c \in 1..AgentConns :
          ~Transient /\ Close(c) /\ UNCHANGED <<convVars, storeVars, srvVars, extVars>>
    \/ \E c \in 1..AgentConns :
          ~Transient /\ Cleanup(c) /\ UNCHANGED <<convVars, storeVars, srvVars, extVars>>
    \/ \E c \in 1..AgentConns, cid \in 1..AgentCalls :
          AgentFrameToolResult(c, cid, "r1")
    \/ \E cid \in 1..AgentCalls : AgentTimeout(cid)
    \/ \E text \in ConvTexts : Len(messages) < MaxMsgs /\ ClientMessage(text)
    \/ ClientCancel
    \/ ClientClose
    \/ \E sent \in BOOLEAN : TaskCancelled(sent)
    \/ HandlerResume
    \/ \E r \in Responses :
          /\ Len(messages) < MaxMsgs
          /\ Len(calls) + Cardinality(ToolUsesAfter(r.content, 0)) <= AgentCalls
          /\ AgentReply(r)
    \/ AgentEmit
    \/ \E s \in Sessions : AgentCall("t1", s)
    \/ AgentNoHandler("t2")
    \/ AgentReport
    \/ AgentFinish
    \/ AgentFails

AgentSpec == AgentInit /\ [][AgentNext]_vars

(***************************************************************************)
(* Specification PromptSpec: one POST /prompt request, with workers        *)
(* registering and disconnecting before and while it runs.                 *)
(***************************************************************************)
PromptTexts == {<<>>, <<"h", "i">>}

PromptNext ==
    \/ \E c \in 1..NumConns, w \in Workers : ConnectRegister(c, w, <<"t1">>)
          /\ UNCHANGED <<convVars, storeVars, srvVars, extVars>>
    \/ \E c \in 1..NumConns : Close(c)
          /\ UNCHANGED <<convVars, storeVars, srvVars, extVars>>
    \/ \E c \in 1..NumConns : Cleanup(c)
          /\ UNCHANGED <<convVars, storeVars, srvVars, extVars>>
    \/ \E text \in PromptTexts : PromptRequest(text)
    \/ \E r \in Responses :
          /\ http.st = "running" /\ Len(messages) < MaxMsgs
          /\ ProviderReply(r)
          /\ UNCHANGED <<hubVars, storeVars, srvVars, extVars>>
    \/ EmitToolUse /\ UNCHANGED <<hubVars, storeVars, srvVars, extVars>>
    \/ \E result \in ToolOutcomes \cup {ErrNoWorker} :
          ToolReturn(result) /\ UNCHANGED <<hubVars, storeVars, srvVars, extVars>>
    \/ ReportResults /\ UNCHANGED <<hubVars, storeVars, srvVars, extVars>>
    \/ PromptAnswer

PromptSpec == Init /\ [][PromptNext]_vars

(***************************************************************************)
(* Specification DiskSpec: the file of one session under create and save,  *)
(* with the process dying at any step of a write.                          *)
(***************************************************************************)
DiskTranscripts ==
    {<<>>, <<UserText(SampleText)>>,
     <<UserText(SampleText), AssistantMsg(<<TextBlock("a")>>)>>,
     <<UserText(PaddedText), AssistantMsg(<<ToolUse("u1")>>),
       UserBlocks(<<ToolResult("u1", "ok")>>)>>}

DiskNext ==
    \/ CreateOpen /\ UNCHANGED <<hubVars, convVars, storeVars, srvVars>>
          /\ UNCHANGED <<other, turns, poolVars, toolVars, rr_count>>
    \/ \E msgs \in DiskTranscripts :
          SaveOpen(msgs) /\ UNCHANGED <<hubVars, convVars, storeVars, srvVars>>
          /\ UNCHANGED <<other, turns, poolVars, toolVars, rr_count>>
    \/ \E k \in 1..(Len(Keys) + 1) :
          WriteFlush(k) /\ UNCHANGED <<hubVars, convVars, storeVars, srvVars>>
          /\ UNCHANGED <<other, turns, poolVars, toolVars, rr_count>>
    \/ WriteClose /\ UNCHANGED <<hubVars, convVars, storeVars, srvVars>>
          /\ UNCHANGED <<other, turns, poolVars, toolVars, rr_count>>
    \/ Crash /\ UNCHANGED <<hubVars, convVars, storeVars, srvVars>>
          /\ UNCHANGED <<other, turns, poolVars, toolVars, rr_count>>

DiskSpec == Init /\ [][DiskNext]_vars

(***************************************************************************)
(* Specification ClearSpec: two sessions of the store.  Session s1 is      *)
(* created, its conversation grows and is saved; session s2 is absent,     *)
(* new, or holds a saved turn; either history, or both, are cleared.       *)
(***************************************************************************)
ClearInit ==
    /\ HubInit /\ watch = {} /\ ConvInit /\ StoreInit /\ SrvInit
    /\ DiskInit /\ TurnsInit /\ PoolInit /\ ToolsInit
    /\ rr_count = [t \in Tools |-> 0]
    /\ other \in {NoFile, OtherSessionFile,
                  Save(OtherSessionFile,
                       <<UserText(SampleText), AssistantMsg(<<TextBlock("a")>>)>>)}

ClearNext ==
    \/ CreateSession /\ UNCHANGED <<hubVars, pc, response, tool_results, blockAt>>
          /\ UNCHANGED <<srvVars, extVars>>
    \/ SaveSession /\ UNCHANGED <<hubVars, pc, response, tool_results, blockAt>>
          /\ UNCHANGED <<srvVars, extVars>>
    \/ \E msg \in SampleMessages :
          grown < MaxTranscript /\ Converse(msg)
          /\ UNCHANGED <<hubVars, pc, response, tool_results, blockAt>>
          /\ UNCHANGED <<srvVars, extVars>>
    \/ \E sid \in {"s1", "s2"} :
          ClearSessionHistory(sid)
          /\ UNCHANGED <<hubVars, pc, response, tool_results, blockAt>>
          /\ UNCHANGED <<hpc, cancelling, running, events>>
          /\ UNCHANGED <<diskVars, turns, poolVars, toolVars, rr_count>>
    \/ ClearAllHistory
          /\ UNCHANGED <<hubVars, pc, response, tool_results, blockAt>>
          /\ UNCHANGED <<hpc, cancelling, running, events>>
          /\ UNCHANGED <<diskVars, turns, poolVars, toolVars, rr_count>>

ClearSpec == ClearInit /\ [][ClearNext]_vars

(***************************************************************************)
(* Specification TurnSpec: the POST /sessions/{id}/prompt requests of one  *)
(* existing session, in flight at once on the event loop.                  *)
(***************************************************************************)
TurnInit ==
    /\ HubInit /\ watch = {} /\ ConvInit /\ SrvInit
    /\ file = NewSessionFile
    /\ preSave = <<>> /\ beforeSave = NoFile /\ lastOp = "none" /\ grown = 0
    /\ ExtInit

TurnNext ==
    \/ \E i \in 1..NumTurns : TurnExists(i)
          /\ UNCHANGED <<hubVars, convVars, srvVars, diskVars, other, poolVars, toolVars, rr_count>>
          /\ UNCHANGED <<preSave, beforeSave, lastOp, grown>>
    \/ DeleteSession
          /\ UNCHANGED <<hubVars, convVars, srvVars, diskVars, other, poolVars, toolVars, rr_count>>
          /\ UNCHANGED <<preSave, beforeSave, lastOp, grown>>
    \/ \E i \in 1..NumTurns, prompt_text \in {<<"a">>, <<"b">>} :
          TurnLoad(i, prompt_text)
          /\ UNCHANGED <<hubVars, convVars, srvVars, diskVars, other, poolVars, toolVars, rr_count>>
          /\ UNCHANGED <<preSave, beforeSave, lastOp, grown>>
    \/ \E i \in 1..NumTurns, r \in TurnResponses :
          /\ r.stop_reason = "tool_use" => Len(turns[i].messages) < MaxTurnMsgs
          /\ TurnReply(i, r)
          /\ UNCHANGED <<hubVars, convVars, srvVars, diskVars, other, poolVars, toolVars, rr_count>>
          /\ UNCHANGED <<preSave, beforeSave, lastOp, grown>>
    \/ \E i \in 1..NumTurns, result \in ToolOutcomes :
          TurnTools(i, result)
          /\ UNCHANGED <<hubVars, convVars, srvVars, diskVars, other, poolVars, toolVars, rr_count>>
          /\ UNCHANGED <<preSave, beforeSave, lastOp, grown>>

TurnSpec == TurnInit /\ [][TurnNext]_vars

(***************************************************************************)
(* Specification PoolSpec: the worker pool manager.  The manager is        *)
(* started and stopped, workers are added, removed and scaled, and worker  *)
(* processes die.  A manager that is down is started again.  The cap: the  *)
(* number of processes started.                                            *)
(***************************************************************************)
PoolNext ==
    \/ ManagerStart
          /\ UNCHANGED <<hubVars, convVars, storeVars, srvVars>>
          /\ UNCHANGED <<diskVars, other, turns, toolVars, rr_count>>
    \/ ManagerStop
          /\ UNCHANGED <<hubVars, convVars, storeVars, srvVars>>
          /\ UNCHANGED <<diskVars, other, turns, toolVars, rr_count>>
    \/ mgr.spawned < MaxSpawn /\ AddWorker
          /\ UNCHANGED <<hubVars, convVars, storeVars, srvVars>>
          /\ UNCHANGED <<diskVars, other, turns, toolVars, rr_count>>
    \/ \E worker_id \in 1..MaxSpawn : RemoveWorker(worker_id)
          /\ UNCHANGED <<hubVars, convVars, storeVars, srvVars>>
          /\ UNCHANGED <<diskVars, other, turns, toolVars, rr_count>>
    \/ \E target \in 0..MaxTarget :
          /\ mgr.spawned + target - Len(pool) <= MaxSpawn
          /\ ScaleTo(target)
          /\ UNCHANGED <<hubVars, convVars, storeVars, srvVars>>
          /\ UNCHANGED <<diskVars, other, turns, toolVars, rr_count>>
    \/ \E pid \in 1..MaxSpawn : ProcDies(pid)
          /\ UNCHANGED <<hubVars, convVars, storeVars, srvVars>>
          /\ UNCHANGED <<diskVars, other, turns, toolVars, rr_count>>

PoolSpec ==
    /\ Init /\ [][PoolNext]_vars
    /\ WF_vars(ManagerStart /\ UNCHANGED <<hubVars, convVars, storeVars, srvVars>>
                            /\ UNCHANGED <<diskVars, other, turns, toolVars, rr_count>>)

(***************************************************************************)
(* Specification ToolsSpec: the tool registries of conversations.  Workers *)
(* connect with any list of tools, close and are cleaned up, while chat    *)
(* sockets open and bind a conversation of their own with                  *)
(* register_tools_on.                                                      *)
(***************************************************************************)
ToolsNext ==
    \/ \E c \in 1..NumConns, w \in Workers, schemas \in ToolLists :
          ToolsConnectRegister(c, w, schemas)
          /\ UNCHANGED <<convVars, storeVars, srvVars>>
          /\ UNCHANGED <<diskVars, other, turns, poolVars, rr_count>>
    \/ \E c \in 1..NumConns : Close(c)
          /\ UNCHANGED <<convVars, storeVars, srvVars, extVars>>
    \/ \E c \in 1..NumConns : ToolsCleanup(c)
          /\ UNCHANGED <<convVars, storeVars, srvVars>>
          /\ UNCHANGED <<diskVars, other, turns, poolVars, rr_count>>
    \/ RegisterToolsOn
          /\ UNCHANGED <<convVars, storeVars, srvVars>>
          /\ UNCHANGED <<diskVars, other, turns, poolVars, rr_count>>

ToolsSpec == Init /\ [][ToolsNext]_vars

(***************************************************************************)
(* Specification CounterSpec: the round-robin pick beside a count of the   *)
(* picks.  Workers register the tool, disconnect and reconnect, and        *)
(* callers without a session dispatch it.  rr_count[t] is the number of    *)
(* round-robin picks (hub.py:194-200) made for t since t was last added to *)
(* tool_to_workers (hub.py:172-174).                                       *)
(***************************************************************************)
PicksAfter ==
    [t \in Tools |->
        IF t \in DOMAIN tool_to_workers' /\ t \notin DOMAIN tool_to_workers
        THEN 0
        ELSE IF /\ Len(calls') = Len(calls) + 1
                /\ calls'[Len(calls')].tool = t
                /\ calls'[Len(calls')].via = "rr"
        THEN rr_count[t] + 1
        ELSE rr_count[t]]

CounterNext ==
    \/ \E c \in 1..NumConns, w \in Workers :
          ConnectRegister(c, w, <<"t1">>) /\ rr_count' = PicksAfter
          /\ UNCHANGED <<convVars, storeVars, srvVars>>
          /\ UNCHANGED <<diskVars, other, turns, poolVars, toolVars>>
    \/ \E c \in 1..NumConns : Close(c) /\ rr_count' = PicksAfter
          /\ UNCHANGED <<convVars, storeVars, srvVars>>
          /\ UNCHANGED <<diskVars, other, turns, poolVars, toolVars>>
    \/ \E c \in 1..NumConns : Cleanup(c) /\ rr_count' = PicksAfter
          /\ UNCHANGED <<convVars, storeVars, srvVars>>
          /\ UNCHANGED <<diskVars, other, turns, poolVars, toolVars>>
    \/ Len(calls) < RouteCalls /\ Dispatch("t1", NoSession) /\ rr_count' = PicksAfter
          /\ UNCHANGED <<convVars, storeVars, srvVars>>
          /\ UNCHANGED <<diskVars, other, turns, poolVars, toolVars>>

CounterSpec == RouteInit /\ [][CounterNext]_vars

(***************************************************************************)
(* Specification AffSpec: routing over two tools.  Workers register any    *)
(* list of tools, are dropped at an invalid frame and reconnect; a session *)
(* and session-less callers dispatch t1 and t2; epoch follows the alive    *)
(* list of t1.                                                             *)
(***************************************************************************)
\* Worker w1 uses the first connection and w2 the others.
AffWorker == [c \in 1..NumConns |-> IF c = 1 THEN "w1" ELSE "w2"]

AffNext ==
    \/ \E c \in 1..NumConns, schemas \in ToolLists \ {<<>>} :
          ConnectRegister(c, AffWorker[c], schemas)
          /\ UNCHANGED <<convVars, storeVars, srvVars, extVars>>
    \/ \E c \in 1..NumConns : FrameInvalid(c)
          /\ UNCHANGED <<convVars, storeVars, srvVars, extVars>>
    \/ \E t \in Tools, s \in Sessions \cup {NoSession} :
          Len(calls) < AffCalls /\ Dispatch(t, s)
          /\ UNCHANGED <<convVars, storeVars, srvVars, extVars>>

AffSpec == RouteInit /\ [][AffNext]_vars

(***************************************************************************)
(* C1.  In every reachable hub state a worker id is in busy_workers if and *)
(* only if some call id of call_to_worker maps to it.                      *)
(***************************************************************************)
C1_BusyIffOutstanding ==
    \A w \in Workers \cup busy_workers :
        w \in busy_workers <=> \E cid \in DOMAIN call_to_worker : call_to_worker[cid] = w

\* A worker that had two calls, one of them answered, is still busy with the other.
C1_Witness ==
    \E i, j \in 1..Len(calls) :
        /\ calls[i].wid = calls[j].wid
        /\ calls[i].st = "done" /\ calls[i].res = "r1"
        /\ calls[j].st = "waiting"
        /\ j \in DOMAIN call_to_worker
        /\ calls[j].wid \in busy_workers

(***************************************************************************)
(* C10, as claimed.  A dispatch whose worker disconnected while its call   *)
(* was outstanding returns nothing but the timeout error string.           *)
(***************************************************************************)
C10_OrphanReturnsOnlyTimeout ==
    \A i \in 1..Len(calls) :
        calls[i].orphan /\ calls[i].st = "done" => calls[i].res = ErrTimeout

(***************************************************************************)
(* C10, amended.  The disconnect of the worker does not complete the       *)
(* dispatch: it stays in _pending with its future waiting.  From there it  *)
(* ends in one of three ways: a tool_result frame carrying its call id     *)
(* arrives and it returns the frame's content, the awaiting task is        *)
(* cancelled, or its deadline fires and it returns the timeout error       *)
(* string.  It does not wait forever.                                      *)
(***************************************************************************)
C10_OrphanStep(i) ==
    calls[i].st = "waiting" /\ calls'[i].orphan =>
        /\ (\E c \in 1..NumConns : Cleanup(c)) =>
              calls'[i].st = "waiting" /\ i \in pending'
        /\ calls[i].orphan => i \in pending
        /\ \/ calls'[i].st = "waiting"
           \/ /\ calls'[i].st = "done"
              /\ calls'[i].res = ErrTimeout
              /\ Timeout(i)
           \/ /\ calls'[i].st = "done"
              /\ calls'[i].res = "r1"
              /\ \E c \in 1..NumConns : FrameToolResult(c, i, "r1")
           \/ /\ calls'[i].st = "cancelled"
              /\ CancelDispatch(i)

C10_OrphanEnds ==
    /\ [][\A i \in 1..Len(calls) : C10_OrphanStep(i)]_vars
    /\ \A i \in 1..MaxCalls :
          (i <= Len(calls) /\ calls[i].orphan /\ calls[i].st = "waiting")
              ~> (i <= Len(calls) /\ calls[i].st # "waiting")

\* An orphaned dispatch that ended by its deadline, the worker still gone.
C10_Witness ==
    \E i \in 1..Len(calls) :
        /\ calls[i].orphan
        /\ calls[i].st = "done"
        /\ calls[i].res = ErrTimeout
        /\ calls[i].wid \notin DOMAIN worker_senders

(***************************************************************************)
(* C2, as claimed.  Every worker id listed under a tool name in            *)
(* tool_to_workers is a key of worker_senders, no list holds a worker id   *)
(* twice, and no tool name maps to an empty list.                          *)
(***************************************************************************)
C2_ListedWorkersConnected ==
    \A t \in DOMAIN tool_to_workers :
        /\ tool_to_workers[t] # <<>>
        /\ \A i, j \in 1..Len(tool_to_workers[t]) :
              tool_to_workers[t][i] = tool_to_workers[t][j] => i = j
        /\ \A i \in 1..Len(tool_to_workers[t]) :
              tool_to_workers[t][i] \in DOMAIN worker_senders

(***************************************************************************)
(* C3.  tool_schemas holds exactly one schema for each tool name that has  *)
(* a provider in tool_to_workers, and none for any other name.             *)
(***************************************************************************)
C3_SchemasMatchProviders ==
    /\ \A t \in Tools :
          InList(t, tool_schemas) <=>
              (t \in DOMAIN tool_to_workers /\ tool_to_workers[t] # <<>>)
    /\ \A i, j \in 1..Len(tool_schemas) : tool_schemas[i] = tool_schemas[j] => i = j

\* t1 had a provider when it was dispatched and has lost its last one since,
\* while t2 still has one.
C3_Witness ==
    /\ Len(calls) = 1 /\ calls[1].tool = "t1" /\ calls[1].wid # NoWorker
    /\ "t1" \notin DOMAIN tool_to_workers
    /\ tool_schemas = <<"t2">>

(***************************************************************************)
(* Counting the dispatches of a tool in a stretch a..b of the log.         *)
(***************************************************************************)
Range(seq) == {seq[i] : i \in 1..Len(seq)}
Floor(n, k) == n \div k
Ceil(n, k) == (n + k - 1) \div k
DispatchesOf(t, a, b) == {i \in a..b : calls[i].tool = t}
RRDispatchesOf(t, a, b) == {i \in DispatchesOf(t, a, b) : calls[i].via = "rr"}
GivenTo(w, idxs) == Cardinality({i \in idxs : calls[i].wid = w})
Fair(t, idxs) ==
    LET k == Len(Alive(t))
        n == Cardinality(idxs)
    IN  \A w \in Range(Alive(t)) :
            Floor(n, k) <= GivenTo(w, idxs) /\ GivenTo(w, idxs) <= Ceil(n, k)

(***************************************************************************)
(* C4, as claimed.  While the alive providers of a tool do not change, any *)
(* N consecutive dispatches of the tool give each of the k alive providers *)
(* floor(N/k) or ceil(N/k) calls.                                          *)
(***************************************************************************)
C4_AnyDispatchesFair ==
    \A t \in watch :
        Alive(t) # <<>> =>
            \A a, b \in (epoch[t] + 1)..Len(calls) : Fair(t, DispatchesOf(t, a, b))

(***************************************************************************)
(* C4, amended.  While the alive providers of a tool do not change, any N  *)
(* consecutive dispatches of the tool that are routed by round-robin       *)
(* (those not served through an existing session binding) give each of the *)
(* k alive providers floor(N/k) or ceil(N/k) calls.                        *)
(***************************************************************************)
C4_RoundRobinDispatchesFair ==
    \A t \in watch :
        Alive(t) # <<>> =>
            \A a, b \in (epoch[t] + 1)..Len(calls) : Fair(t, RRDispatchesOf(t, a, b))

\* Two alive providers and three round-robin dispatches in one period.
C4_Witness ==
    /\ Len(Alive("t1")) = 2
    /\ Cardinality(RRDispatchesOf("t1", epoch["t1"] + 1, Len(calls))) = 3

(***************************************************************************)
(* C5.  A dispatch of session s, bound to worker w, of a tool that w       *)
(* provides while w is connected is routed to w and leaves the binding as  *)
(* it is, whoever else has registered for the tool.  A dispatch of a       *)
(* session with no binding is routed to the alive provider at the tool's   *)
(* round-robin index, and the session is then bound to that worker.        *)
(***************************************************************************)
C5_DispatchStep(s) ==
    LET e == calls'[Len(calls')]
        t == e.tool
    IN  (Len(calls') = Len(calls) + 1 /\ e.sid = s) =>
            IF /\ s \in DOMAIN session_affinity
               /\ t \in DOMAIN tool_to_workers
               /\ session_affinity[s] \in Range(tool_to_workers[t])
               /\ session_affinity[s] \in DOMAIN worker_senders
            THEN e.wid = session_affinity[s] /\ session_affinity' = session_affinity
            ELSE s \notin DOMAIN session_affinity /\ Alive(t) # <<>> =>
                    /\ e.wid = Alive(t)[(tool_rr_index[t] % Len(Alive(t))) + 1]
                    /\ s \in DOMAIN session_affinity'
                    /\ session_affinity'[s] = e.wid

Gone(w) == \A c \in DOMAIN connWid : connWid[c] # w

Purged(w) ==
    /\ w \notin DOMAIN worker_senders
    /\ \A t \in DOMAIN tool_to_workers : w \notin Range(tool_to_workers[t])
    /\ w \notin Values(session_affinity)
    /\ w \notin busy_workers
    /\ w \notin Values(call_to_worker)

C9_RebindStep(s) ==
    LET e == calls'[Len(calls')]
    IN  (Len(calls') = Len(calls) + 1 /\ e.sid = s) =>
            /\ e.wid # NoWorker =>
                  /\ e.wid \in DOMAIN worker_senders
                  /\ e.wid \in Range(tool_to_workers[e.tool])
                  /\ ~Gone(e.wid)
                  /\ session_affinity'[s] = e.wid
            /\ e.wid = NoWorker => Alive(e.tool) = <<>>

C9_DisconnectedWorkerPurged ==
    /\ [](\A w \in Workers : Gone(w) => Purged(w))
    /\ [][\A s \in Sessions : C9_RebindStep(s)]_vars

\* The session was routed to a worker that is gone now, and its next call
\* went to another worker, to which it is bound.
C9_Witness ==
    \E i, j \in 1..Len(calls) :
        /\ i < j /\ j = Len(calls)
        /\ calls[i].sid = "s1" /\ calls[j].sid = "s1"
        /\ calls[i].wid # NoWorker /\ Gone(calls[i].wid)
        /\ calls[j].wid # NoWorker /\ calls[j].wid # calls[i].wid
        /\ calls[j].via = "rr"
        /\ session_affinity["s1"] = calls[j].wid


(***************************************************************************)
(* C6.  In every transcript an assistant message with tool_use blocks      *)
(* b1..bn is immediately followed by a user message holding exactly the    *)
(* tool_result blocks for b1.id..bn.id in that order; it is the last       *)
(* message only while the task that received it is still handling it.      *)
(***************************************************************************)
ToolUseIds(blocks) ==
    LET at == ToolUsesAfter(blocks, 0)
        RECURSIVE Ids(_)
        Ids(k) == IF k > Len(blocks) THEN <<>>
                  ELSE IF k \in at THEN <<blocks[k].id>> \o Ids(k + 1)
                  ELSE Ids(k + 1)
    IN  Ids(1)

Answers(msg, ids) ==
    /\ msg.role = "user" /\ msg.kind = "list"
    /\ Len(msg.blocks) = Len(ids)
    /\ \A k \in 1..Len(ids) :
          msg.blocks[k].type = "tool_result" /\ msg.blocks[k].id = ids[k]

C6_ToolUseAnswered ==
    \A i \in 1..Len(messages) :
        (messages[i].role = "assistant" /\ ToolUsesAfter(messages[i].blocks, 0) # {})
        => IF i = Len(messages)
           THEN pc \in {"emit", "tool"}
           ELSE Answers(messages[i + 1], ToolUseIds(messages[i].blocks))

(***************************************************************************)
(* C7.  Two saves of the same conversation in a row leave the stored       *)
(* record (name, header fields, messages) as the first save left it.       *)
(***************************************************************************)
C7_SaveIdempotent == lastOp = "save save" => file = beforeSave

\* Saved twice: a record whose name was derived from the first user text
\* and again starts with the default prefix.
C7_Witness ==
    /\ lastOp = "save save"
    /\ file.name = AgentPrefix \o <<"b">>
    /\ Len(file.messages) = 2

(***************************************************************************)
(* C8, as claimed.  A load after a save yields messages equal to the       *)
(* pre-save messages in number, order, role and content, for transcripts   *)
(* of every length.                                                        *)
(***************************************************************************)
SameBlock(a, b) == a.type = b.type /\ a.id = b.id /\ a.text = b.text
SameMessage(a, b) ==
    /\ a.role = b.role /\ a.kind = b.kind /\ a.str = b.str
    /\ Len(a.blocks) = Len(b.blocks)
    /\ \A k \in 1..Len(a.blocks) : SameBlock(a.blocks[k], b.blocks[k])

C8_RoundTripAnyLength ==
    lastOp = "save load" =>
        /\ Len(messages) = Len(preSave)
        /\ \A k \in 1..Len(preSave) : SameMessage(messages[k], preSave[k])

(***************************************************************************)
(* C8, amended.  A load after a save yields the pre-save messages in       *)
(* order, role and content when there are at most MAX_MESSAGES of them,    *)
(* and the last MAX_MESSAGES of them otherwise.                            *)
(***************************************************************************)
C8_RoundTripLastMessages ==
    lastOp = "save load" =>
        LET n == Len(preSave)
            m == IF n > MAX_MESSAGES THEN MAX_MESSAGES ELSE n
        IN  /\ Len(messages) = m
            /\ \A k \in 1..m : SameMessage(messages[k], preSave[n - m + k])

\* A transcript one message over the limit, ending in an assistant message
\* of block objects, was saved and loaded.
C8_Witness ==
    /\ lastOp = "save load"
    /\ Len(preSave) = MAX_MESSAGES + 1
    /\ preSave[Len(preSave)].role = "assistant"
    /\ preSave[Len(preSave)].blocks[1].form = "obj"
    /\ messages[Len(messages)].blocks[1].form = "dict"


(***************************************************************************)
(* C12.  When the deadline of a dispatch fires, its call id leaves pending *)
(* and call_to_worker, every other call keeps its entries, the worker      *)
(* leaves busy_workers exactly when no other call maps to it, and the      *)
(* dispatch returns the timeout error string.                              *)
(***************************************************************************)
C12_TimeoutStep(i) ==
    Timeout(i) =>
        LET w == calls[i].wid
            others == DOMAIN call_to_worker \ {i}
        IN  /\ pending' = pending \ {i}
            /\ DOMAIN call_to_worker' = others
            /\ \A j \in others : call_to_worker'[j] = call_to_worker[j]
            /\ busy_workers' = IF \E j \in others : call_to_worker[j] = w
                               THEN busy_workers
                               ELSE busy_workers \ {w}
            /\ calls'[i].st = "done" /\ calls'[i].res = ErrTimeout
            /\ \A j \in 1..Len(calls) : j # i => calls'[j] = calls[j]

C12_TimeoutCleansOneCall == [][\A i \in 1..MaxCalls : C12_TimeoutStep(i)]_vars

\* One call of a worker timed out while its other call is still outstanding
\* and keeps the worker busy.
C12_Witness ==
    \E i, j \in 1..Len(calls) :
        /\ calls[i].st = "done" /\ calls[i].res = ErrTimeout
        /\ calls[j].st = "waiting" /\ calls[j].wid = calls[i].wid
        /\ j \in pending /\ j \in DOMAIN call_to_worker
        /\ calls[j].wid \in busy_workers

(***************************************************************************)
(* C14.  A frame of a registered worker that is not valid JSON is ignored: *)
(* its connection stays open, the worker stays in worker_senders and       *)
(* tool_to_workers, and worker_count is unchanged.                         *)
(***************************************************************************)
C14_InvalidFrameIgnored ==
    [][\A c \in 1..NumConns :
          (c \in registered /\ FrameInvalid(c)) =>
              /\ connSt'[c] = "open"
              /\ UNCHANGED <<worker_senders, tool_to_workers, worker_count>>]_vars

(***************************************************************************)
(* C16.  worker_count equals the number of connections held by the hub     *)
(* that have registered, it is never negative, and /healthz answers 200    *)
(* exactly when there is such a connection.                                *)
(***************************************************************************)
C16_WorkerCountMatches ==
    /\ worker_count >= 0
    /\ worker_count = Cardinality(registered)
    /\ Healthz = 200 <=> registered # {}

(***************************************************************************)
(* C17.  A worker that has reconnected under its worker id and registered  *)
(* stays in worker_senders and in tool_to_workers for its tool while the   *)
(* new connection is open, also when the hub processes the close of the    *)
(* old connection afterwards.  The new connection is the one whose sender  *)
(* worker_senders holds.                                                   *)
(***************************************************************************)
C17_OldCloseStep(old, new) ==
    LET w == connWid[old]
    IN  (/\ old # new
         /\ Cleanup(old)
         /\ connWid[new] = w /\ connSt[new] = "open"
         /\ w \in DOMAIN worker_senders /\ worker_senders[w] = new)
        => /\ w \in DOMAIN worker_senders'
           /\ "t1" \in DOMAIN tool_to_workers'
           /\ InList(w, tool_to_workers'["t1"])

C17_ReconnectedWorkerStays ==
    [][\A old, new \in 1..NumConns : C17_OldCloseStep(old, new)]_vars

(***************************************************************************)
(* C20.  The hub state of a call whose awaiting task was cancelled is      *)
(* cleaned at the latest when the deadline of the dispatch passes, also if *)
(* the worker never answers: its pending and call_to_worker entries go and *)
(* the worker is busy only with other calls.                               *)
(***************************************************************************)
C20_CallCleaned(i) ==
    /\ i \notin pending
    /\ i \notin DOMAIN call_to_worker
    /\ calls[i].wid \in busy_workers => calls[i].wid \in Values(call_to_worker)

C20_CancelledCallCleaned ==
    \A i \in 1..MaxCalls :
        (i <= Len(calls) /\ calls[i].st = "cancelled")
            ~> (i <= Len(calls) /\ C20_CallCleaned(i))

(***************************************************************************)
(* C13.  With several dispatches outstanding at once and tool_result       *)
(* frames arriving in any order, a dispatch that returns a frame's content *)
(* returns the content of the frame that carried its own call id.          *)
(***************************************************************************)
C13_ResultStep(i) ==
    (calls[i].st = "waiting" /\ calls'[i].st = "done" /\ calls'[i].res # ErrTimeout)
    => /\ calls'[i].res = ContentOf(i)
       /\ \E c \in 1..NumConns : FrameToolResult(c, i, ContentOf(i))
       /\ \A j \in 1..Len(calls) : j # i => calls'[j] = calls[j]

C13_ResultsCorrelated ==
    /\ [][\A i \in 1..Len(calls) : C13_ResultStep(i)]_vars
    /\ [](\A i \in 1..Len(calls) :
             calls[i].st = "done" /\ calls[i].wid # NoWorker
                => calls[i].res \in {ContentOf(i), ErrTimeout})

\* Three dispatches, two of them at one worker: the first and the third are
\* answered, each with its own content, while the second is still waiting.
C13_Witness ==
    /\ Len(calls) = 3
    /\ calls[1].st = "done" /\ calls[1].res = ContentOf(1)
    /\ calls[2].st = "waiting" /\ 2 \in pending
    /\ calls[3].st = "done" /\ calls[3].res = ContentOf(3)
    /\ calls[1].sid # calls[3].sid
    /\ \E i, j \in 1..3 : i # j /\ calls[i].wid = calls[j].wid

(***************************************************************************)
(* C11.  A dispatch of a tool with no live provider returns the no-worker  *)
(* error string at once, sends no tool_call, and leaves pending,           *)
(* call_to_worker, busy_workers, session_affinity and the round-robin      *)
(* index as they are; the agent loop goes on with that string as the       *)
(* content of the block's tool_result.                                     *)
(***************************************************************************)
C11_NoProviderStep ==
    LET e == calls'[Len(calls')]
        block == response.content[blockAt]
        results == IF pc' = "tool" THEN tool_results'
                   ELSE messages'[Len(messages')].blocks
        last == results[Len(results)]
    IN  (Len(calls') = Len(calls) + 1 /\ Alive(e.tool) = <<>>) =>
            /\ e.st = "done" /\ e.wid = NoWorker /\ e.res = ErrNoWorker
            /\ UNCHANGED <<pending, call_to_worker, busy_workers, session_affinity,
                           tool_rr_index>>
            /\ pc' \in {"tool", "report"} /\ running' = running
            /\ pc' = "report" => messages'[Len(messages')].role = "user"
            /\ last.type = "tool_result" /\ last.id = block.id
            /\ last.text = ErrNoWorker

C11_NoProviderError == [][C11_NoProviderStep]_vars

\* One call of the session reached a worker and another found no provider:
\* its error string is in the transcript as a tool_result, and the provider
\* has answered the step that followed.
C11_Witness ==
    \E i \in 1..Len(messages) :
        /\ i < Len(messages)
        /\ messages[i].role = "user" /\ messages[i].kind = "list"
        /\ messages[i].blocks[1].text = ErrNoWorker
        /\ messages[i + 1].role = "assistant"
        /\ \E j \in 1..Len(calls) : calls[j].wid # NoWorker

(***************************************************************************)
(* C15.  A POST /prompt request with a prompt that arrives while           *)
(* worker_count is 0 is answered 503 and the agent loop is not run.        *)
(***************************************************************************)
C15_NoWorkersAnswered503 ==
    (http.st # "none" /\ http.wc = 0 /\ http.status # 400) =>
        /\ http.st = "answered" /\ http.status = 503
        /\ messages = <<>> /\ pc = "idle"

(***************************************************************************)
(* C18.  On the client socket at most one agent task runs at any time.  A  *)
(* message that arrives while a task is in flight cancels that task, and   *)
(* the new task starts only when the old one is done; a cancel frame       *)
(* cancels the task in flight and starts none.                             *)
(***************************************************************************)
C18_Step ==
    /\ running' > running => running = 0 /\ ~cancelling
    /\ (hpc = "recv" /\ hpc' \in {"message_wait", "cancel_wait"}) =>
          running = 1 /\ cancelling' /\ running' = running
    /\ (hpc = "cancel_wait" /\ hpc' # hpc) => hpc' = "recv" /\ running' = 0
    /\ (hpc = "message_wait" /\ hpc' # hpc) =>
          hpc' = "recv" /\ running = 0 /\ running' = 1

C18_OneTaskPerSocket == [](running <= 1) /\ [][C18_Step]_vars

\* The first task was cancelled while it awaited the provider (the cancel
\* path saved its one message) and the task of the second message runs.
C18_Witness ==
    /\ hpc = "recv" /\ running = 1 /\ pc = "send"
    /\ Len(messages) = 2
    /\ messages[1].role = "user" /\ messages[2].role = "user"
    /\ Len(file.messages) = 1

(***************************************************************************)
(* C19.  When the running agent task is cancelled at one of its awaits     *)
(* (provider call, tool dispatch, client send), the step that ends it      *)
(* emits the cancelled event to the client (the socket being open), saves  *)
(* the transcript as it stands, and emits no done event for that task.     *)
(***************************************************************************)
C19_CancelStep == cancelling /\ ~cancelling' /\ running' = running - 1

C19_CancelledNotDone ==
    [][C19_CancelStep =>
          /\ hpc # "close_wait" =>
                Len(events') > Len(events) /\ events'[Len(events')] = "cancelled"
          /\ file' = Save(file, messages)
          /\ \A i \in (Len(events) + 1)..Len(events') : events'[i] # "done"]_vars

(***************************************************************************)
(* C21.  The session file is written atomically: at every instant of a     *)
(* create or a save, and after the process died at any step of the write,  *)
(* the file on disk holds the complete previous record or the complete new *)
(* record, never an empty or partial text.                                 *)
(***************************************************************************)
C21_FileWrittenAtomically ==
    disk.exists =>
        /\ Parses(disk.text)
        /\ disk \in {wr.prev, [exists |-> TRUE, text |-> JsonDump(wr.data)]}

(***************************************************************************)
(* C22.  POST /sessions/{id}/clear on an existing session answers 204 and  *)
(* leaves the stored record with messages = [] and its session_id, model,  *)
(* system, max_tokens and created_at as they were; the other session is    *)
(* untouched.                                                              *)
(***************************************************************************)
C22_Cleared(before, after) ==
    /\ after.exists
    /\ after.messages = <<>>
    /\ after.session_id = before.session_id
    /\ after.model = before.model
    /\ after.system = before.system
    /\ after.max_tokens = before.max_tokens
    /\ after.created_at = before.created_at

C22_ClearStep ==
    /\ (lastOp' = "clear s1" /\ file.exists) =>
          http'.status = 204 /\ C22_Cleared(file, file') /\ other' = other
    /\ (lastOp' = "clear s2" /\ other.exists) =>
          http'.status = 204 /\ C22_Cleared(other, other') /\ file' = file

RECURSIVE C23_Added(_)
C23_Added(n) ==
    IF n = 0 THEN 0
    ELSE C23_Added(n - 1) + Len(turns[n].messages) - turns[n].base

C23_TurnsSerialize ==
    (file.exists /\ \A i \in 1..NumTurns : turns[i].pc = "done") =>
        /\ Len(file.messages) = C23_Added(NumTurns)
        /\ \A i \in 1..NumTurns :
              \E k \in 1..Len(file.messages) :
                 file.messages[k] = UserText(turns[i].prompt)

(***************************************************************************)
(* C24.  The pool manager keeps the recorded workers alive: when the       *)
(* process of a recorded entry is dead, the manager eventually replaces it *)
(* or drops the entry, so that every recorded entry refers to a live       *)
(* process.                                                                *)
(***************************************************************************)
C24_AllEntriesLive == \A i \in 1..Len(pool) : pool[i].pid \in procs

C24_DeadWorkerReplaced == (~C24_AllEntriesLive) ~> C24_AllEntriesLive

(***************************************************************************)
(* C25.  scale_to(target), for a target of 0 or more, leaves the pool with *)
(* exactly target entries: growing only appends entries, whose processes   *)
(* run, and keeps the existing ones; shrinking keeps the first target      *)
(* entries in their order and kills and removes the entries after them.    *)
(***************************************************************************)
C25_ScaleStep ==
    (mgr'.last.op = "scale" /\ mgr'.last.tick # mgr.last.tick) =>
        LET target == mgr'.last.target
            gone == {pool[i].pid : i \in (Len(pool') + 1)..Len(pool)}
            new == {pool'[i].pid : i \in (Len(pool) + 1)..Len(pool')}
        IN  /\ Len(pool') = target
            /\ target >= Len(pool) =>
                  /\ SubSeq(pool', 1, Len(pool)) = pool
                  /\ procs' = procs \cup new
            /\ target <= Len(pool) =>
                  /\ pool' = SubSeq(pool, 1, target)
                  /\ procs' = procs \ gone

C25_ScaleToLeavesTarget == [][C25_ScaleStep]_vars

\* A pool of more entries was scaled down to a target that is not 0.
C25_Witness ==
    /\ mgr.last.op = "scale"
    /\ mgr.last.before > mgr.last.target /\ mgr.last.target > 0
    /\ Len(pool) = mgr.last.target

(***************************************************************************)
(* C26.  The tool_use blocks of one response are dispatched in parallel:   *)
(* when the task awaits the result of a call, the tool_call of every       *)
(* tool_use block of the response has been sent.                           *)
(***************************************************************************)
C26_BlocksDispatchedInParallel ==
    AwaitingCall => ToolUsesAfter(response.content, blockAt) = {}

(***************************************************************************)
(* C27.  Per-tool errors never abort the agent loop: whatever fails in the *)
(* tool of a tool_use block (no handler, no worker, a failing send, a      *)
(* timeout), the block gets exactly one tool_result, whose content is the  *)
(* tool's result or a string that starts with "Error: ", the blocks after  *)
(* it are handled, and the loop goes on to the next provider step.  Only a *)
(* cancellation ends the task while it handles tools.                      *)
(***************************************************************************)
C27_Contents ==
    {"r1", ErrNoHandler, ErrNoWorker, ErrTimeout, "Error: " \o SendRaised}

C27_BlockStep ==
    /\ (pc = "tool" /\ (pc' # "tool" \/ blockAt' # blockAt)) =>
          \/ cancelling /\ pc' = "idle"
          \/ LET rest == ToolUsesAfter(response.content, blockAt)
                 results == IF rest = {} THEN messages'[Len(messages')].blocks
                            ELSE tool_results'
                 last == results[Len(results)]
             IN  /\ Len(results) = Len(tool_results) + 1
                 /\ SubSeq(results, 1, Len(tool_results)) = tool_results
                 /\ last.type = "tool_result"
                 /\ last.id = response.content[blockAt].id
                 /\ last.text \in C27_Contents
                 /\ IF rest = {}
                    THEN /\ pc' = "report"
                         /\ messages' = Append(messages, UserBlocks(results))
                    ELSE /\ pc' = "tool" /\ blockAt' = Min(rest)
                         /\ messages' = messages
    /\ (pc = "report" /\ pc' # pc) => pc' = "step" \/ (cancelling /\ pc' = "idle")

C27_ToolErrorsBecomeResults == [][C27_BlockStep]_vars

\* The two blocks of a response failed, one for want of a handler and one
\* on a send that raised, and the loop is at its next provider step.
C27_Witness ==
    /\ pc = "step"
    /\ messages[Len(messages)].role = "user"
    /\ messages[Len(messages)].kind = "list"
    /\ Len(messages[Len(messages)].blocks) = 2
    /\ {messages[Len(messages)].blocks[k].text : k \in 1..2}
          = {ErrNoHandler, "Error: " \o SendRaised}


(***************************************************************************)
(* C28.  On every step where a tool name loses its last provider (it       *)
(* leaves tool_to_workers), the name is afterwards absent from             *)
(* tool_schemas, from rr_index, from the registry of the hub's own         *)
(* conversation and from the registry of the conversation bound through    *)
(* register_tools_on.                                                      *)
(***************************************************************************)
C28_LostStep ==
    \A t \in Tools :
        (t \in DOMAIN tool_to_workers /\ t \notin DOMAIN tool_to_workers') =>
            /\ ~InList(t, tool_schemas')
            /\ t \notin DOMAIN tool_rr_index'
            /\ ~InList(t, conversation_tools')
            /\ ~InList(t, bound_tools')

C28_ToolLeavesEveryRegistry == [][C28_LostStep]_vars


(***************************************************************************)
(* C29.  On every dispatch of the tool, the worker the tool_call is sent   *)
(* to has an open connection that registered the tool at that moment, and  *)
(* the "no worker registered" error is returned only when no worker has    *)
(* such a connection.                                                      *)
(***************************************************************************)
C29_LiveProviders ==
    {w \in Workers : \E c \in registered : connSt[c] = "open" /\ connWid[c] = w}

C29_DispatchStep ==
    Len(calls') = Len(calls) + 1 =>
        LET r == calls'[Len(calls')]
        IN  /\ r.wid # NoWorker => r.wid \in C29_LiveProviders
            /\ r.res = ErrNoWorker => C29_LiveProviders = {}

C29_SentOnlyToLiveProvider == [][C29_DispatchStep]_vars


(***************************************************************************)
(* C30.  On every round-robin pick for a tool the worker chosen is         *)
(* alive[c mod len(alive)] (lists counted from 0), where c is the number   *)
(* of round-robin picks made for the tool since its name was last added.   *)
(***************************************************************************)
C30_PickStep ==
    \A t \in Tools :
        (/\ Len(calls') = Len(calls) + 1
         /\ calls'[Len(calls')].tool = t
         /\ calls'[Len(calls')].via = "rr") =>
            calls'[Len(calls')].wid =
                Alive(t)[(rr_count[t] % Len(Alive(t))) + 1]

C30_PickFollowsCounter == [][C30_PickStep]_vars


(***************************************************************************)
(* C31.  On every dispatch of tool t by session s: when s's previous       *)
(* dispatch of t went to worker w, the alive providers of t have not       *)
(* changed since, w's connection is open, and in between s dispatched      *)
(* another tool u that w does not provide and that another worker served,  *)
(* the dispatch goes to w again.                                           *)
(***************************************************************************)
C31_Previous(t, s) ==
    {i \in 1..Len(calls) :
        /\ calls[i].tool = t /\ calls[i].sid = s /\ calls[i].wid # NoWorker
        /\ \A j \in (i + 1)..Len(calls) : ~(calls[j].tool = t /\ calls[j].sid = s)}

C31_OtherToolBetween(t, s, i) ==
    \E j \in (i + 1)..Len(calls) :
        /\ calls[j].sid = s /\ calls[j].tool # t
        /\ calls[j].wid \notin {NoWorker, calls[i].wid}
        /\ calls[j].tool \in DOMAIN tool_to_workers
        /\ ~InList(calls[i].wid, tool_to_workers[calls[j].tool])

C31_DispatchStep ==
    \A t \in watch, s \in Sessions, i \in 1..Len(calls) :
        (/\ Len(calls') = Len(calls) + 1
         /\ calls'[Len(calls')].tool = t /\ calls'[Len(calls')].sid = s
         /\ i \in C31_Previous(t, s)
         /\ epoch[t] < i
         /\ calls[i].wid \in DOMAIN worker_senders
         /\ connSt[worker_senders[calls[i].wid]] = "open"
         /\ InList(calls[i].wid, tool_to_workers[t])
         /\ C31_OtherToolBetween(t, s, i)) =>
            calls'[Len(calls')].wid = calls[i].wid

C31_AffinityPerTool == [][C31_DispatchStep]_vars


(***************************************************************************)
(* C32.  On every dispatch: one served through an existing binding leaves  *)
(* rr_index as it was; one without a session id leaves session_affinity as *)
(* it was; and a dispatch of tool t leaves the rr_index entry of every     *)
(* other tool as it was, present or absent.                                *)
(***************************************************************************)
C32_DispatchStep ==
    Len(calls') = Len(calls) + 1 =>
        LET r == calls'[Len(calls')]
        IN  /\ r.via = "affinity" => tool_rr_index' = tool_rr_index
            /\ r.sid = NoSession => session_affinity' = session_affinity
            /\ \A u \in Tools \ {r.tool} :
                  /\ u \in DOMAIN tool_rr_index' <=> u \in DOMAIN tool_rr_index
                  /\ u \in DOMAIN tool_rr_index =>
                        tool_rr_index'[u] = tool_rr_index[u]

C32_RoutingFrame == [][C32_DispatchStep]_vars

\* A dispatch was served through a binding and another, of the other tool,
\* came without a session and was routed by round-robin, both tools having
\* an rr_index entry above 0.
C32_Witness ==
    /\ \E i, j \in 1..Len(calls) :
          /\ calls[i].via = "affinity"
          /\ calls[j].sid = NoSession /\ calls[j].via = "rr"
          /\ calls[j].tool # calls[i].tool
    /\ \A t \in Tools : t \in DOMAIN tool_rr_index /\ tool_rr_index[t] > 0
    /\ session_affinity # EmptyDict


(***************************************************************************)
(* C33.  Right after a save the stored message list has at most            *)
(* MAX_MESSAGES entries and is the last min(len, MAX_MESSAGES) messages of *)
(* the conversation, in order (assistant blocks in their dict form), and   *)
(* the conversation's own messages are what they were before the save.     *)
(***************************************************************************)
C33_SaveStep ==
    (lastOp' \in {"save", "save save"} /\ file'.exists) =>
        LET n == Len(messages)
            m == IF n > MAX_MESSAGES THEN MAX_MESSAGES ELSE n
        IN  /\ Len(file'.messages) = m
            /\ m <= MAX_MESSAGES
            /\ \A k \in 1..m :
                  /\ SameMessage(file'.messages[k], messages[n - m + k])
                  /\ \A b \in 1..Len(file'.messages[k].blocks) :
                        file'.messages[k].role = "assistant" =>
                            file'.messages[k].blocks[b].form = "dict"
            /\ messages' = messages

C33_SaveKeepsLastMessages == [][C33_SaveStep]_vars

\* A conversation one message over the limit was saved: the record holds
\* MAX_MESSAGES messages, the first of the conversation is not among them
\* and its last, a user text, is the record's last.
C33_Witness ==
    /\ lastOp = "save"
    /\ Len(preSave) = MAX_MESSAGES + 1
    /\ Len(file.messages) = MAX_MESSAGES
    /\ file.messages[MAX_MESSAGES] = preSave[MAX_MESSAGES + 1]
    /\ preSave[MAX_MESSAGES + 1].role = "user"
    /\ messages = preSave


(***************************************************************************)
(* C34.  A save changes the name of a session only while the name is still *)
(* the default Agent-<id4> that create gave it: once the name differs from *)
(* the default, it stays as it is on every later save.                     *)
(***************************************************************************)
C34_SaveStep ==
    (/\ lastOp' \in {"save", "save save"}
     /\ file.exists /\ file'.exists
     /\ file.name # NewSessionFile.name) =>
        file'.name = file.name

C34_NameDerivedOnce == [][C34_SaveStep]_vars


(***************************************************************************)
(* C35.  A run of run_until_done: the transcript it adds starts with the   *)
(* user message; it goes on with tool handling and step only while the     *)
(* latest response has stop_reason tool_use, each tool-calling assistant   *)
(* message being followed by the results of its tool_use blocks; at the    *)
(* first response with another stop_reason it is done and has returned the *)
(* text of that response's text blocks joined by newline; and it has made  *)
(* one provider call for each response plus the one it is waiting for.     *)
(***************************************************************************)
RECURSIVE C35_Lines(_)
C35_Lines(content) ==
    IF content = <<>> THEN <<>>
    ELSE LET rest == C35_Lines(Tail(content))
         IN  IF Head(content).type # "text" THEN rest
             ELSE IF rest = <<>> THEN <<Head(content).text>>
             ELSE <<Head(content).text, "\n">> \o rest

C35_Alternates(new) ==
    \A k \in 1..Len(new) :
        /\ (new[k].role = "assistant" /\ k < Len(new)) =>
              LET uses == SelectSeq(new[k].blocks, LAMBDA b : b.type = "tool_use")
              IN  IF uses = <<>> THEN new[k + 1].role = "assistant"
                  ELSE new[k + 1] =
                          UserBlocks([j \in 1..Len(uses) |->
                                         ToolResult(uses[j].id, new[k + 1].blocks[j].text)])
        /\ (new[k].role = "user" /\ k > 1) =>
              new[k].kind = "list" /\ new[k - 1].role = "assistant"

C35_Turn(i) ==
    LET t == turns[i]
        new == SubSeq(t.messages, t.base + 1, Len(t.messages))
        responses == Cardinality({k \in 1..Len(new) : new[k].role = "assistant"})
    IN  t.pc \notin {"idle", "checked", "lost"} =>
            /\ new # <<>> /\ new[1] = UserText(t.prompt)
            /\ C35_Alternates(new)
            /\ t.pc = "send" => t.resp = NoResponse /\ Len(new) = 1
            /\ t.pc \in {"tool", "step"} => t.resp.stop_reason = "tool_use"
            /\ t.pc \in {"send", "step"} => t.creates = responses + 1
            /\ t.pc \in {"tool", "done", "unsaved"} => t.creates = responses
            /\ t.pc \notin {"done", "unsaved"} => t.result = NoReturn
            /\ t.pc \in {"done", "unsaved"} =>
                  /\ t.resp.stop_reason \notin {"tool_use", "none"}
                  /\ new[Len(new)] = AssistantMsg(t.resp.content)
                  /\ t.result = C35_Lines(t.resp.content)

C35_RunUntilDone == \A i \in 1..NumTurns : C35_Turn(i)

\* A run that handled a tool call, made two provider calls and returned two
\* lines of text.
C35_Witness ==
    \E i \in 1..NumTurns :
        /\ turns[i].pc = "done"
        /\ turns[i].creates = 2
        /\ Len(turns[i].messages) - turns[i].base = 4
        /\ turns[i].result = <<"a", "\n", "b">>


(***************************************************************************)
(* C36.  While the session's file is absent, every step of a turn leaves   *)
(* it absent: the load of a turn that had found the session raises, the    *)
(* final save of a turn in flight raises, and no turn ends as saved.       *)
(***************************************************************************)
C36_MissingStep ==
    ~file.exists =>
        /\ file' = file
        /\ \A i \in 1..NumTurns :
              /\ turns[i].pc = "checked" => turns'[i].pc \in {"checked", "lost"}
              /\ turns'[i].pc = "done" => turns[i].pc = "done"
              /\ turns'[i].pc = "unsaved" =>
                    turns[i].pc \in {"unsaved", "send", "step"}

C36_MissingSessionStaysMissing == [][C36_MissingStep]_vars

\* The session was deleted under two turns: the load of one and the final
\* save of the other raised, and the file is absent.
C36_Witness ==
    /\ ~file.exists
    /\ \E i, j \in 1..NumTurns : turns[i].pc = "lost" /\ turns[j].pc = "unsaved"


(***************************************************************************)
(* C37.  Every call id that a dispatch recorded in pending or in           *)
(* call_to_worker eventually is in neither, also when the send of its      *)
(* tool_call raised (set aside the call whose awaiting task is cancelled,  *)
(* the case of C20).                                                       *)
(***************************************************************************)
C37_NoCallOutstandingForever ==
    \A i \in 1..MaxCalls :
        (i \in pending \/ i \in DOMAIN call_to_worker)
            ~> \/ i \notin pending /\ i \notin DOMAIN call_to_worker
               \/ i <= Len(calls) /\ calls[i].st = "cancelled"


(***************************************************************************)
(* C38.  Every call id in call_to_worker is also in pending.               *)
(***************************************************************************)
C38_TrackedCallsArePending == DOMAIN call_to_worker \subseteq pending

\* Two calls were dispatched; the worker of the first disconnected, so the
\* first is in pending only, while the second is waiting in both maps.
C38_Witness ==
    /\ pending = {1, 2}
    /\ DOMAIN call_to_worker = {2}
    /\ calls[1].orphan
    /\ calls[2].st = "waiting"


(***************************************************************************)
(* C39.  A tool_result frame whose call id the hub never issued, or whose  *)
(* dispatch has already returned a result or the timeout error, leaves     *)
(* every hub map as it was; and a dispatch that has returned keeps what it *)
(* returned on every later step.                                           *)
(***************************************************************************)
C39_LateFrameStep ==
    \A c \in 1..NumConns, cid \in 0..MaxCalls :
        (/\ cid = 0 \/ (cid <= Len(calls) /\ calls[cid].st = "done")
         /\ FrameToolResult(c, cid, "r1")) =>
            UNCHANGED hubVars

C39_CompletedOnceStep ==
    \A i \in 1..Len(calls) :
        calls[i].st = "done" =>
            calls'[i].st = "done" /\ calls'[i].res = calls[i].res

C39_LateFrameChangesNothing ==
    [][C39_LateFrameStep /\ C39_CompletedOnceStep]_vars

\* One dispatch has returned its result and another the timeout error; the
\* worker of both is still connected, so frames for both can still arrive,
\* beside a frame with an unknown call id.
C39_Witness ==
    /\ Len(calls) = 2
    /\ calls[1].st = "done" /\ calls[1].res = "r1"
    /\ calls[2].st = "done" /\ calls[2].res = ErrTimeout
    /\ calls[1].wid = calls[2].wid
    /\ \E c \in 1..NumConns : ENABLED FrameToolResult(c, 2, "r1")

====
